---- MODULE Spec2Model ----
(***************************************************************************)
(* A model of the spc command line client (sparcur/cli.py).                *)
(*                                                                         *)
(* Each command is modelled as the sequence of steps its method takes,     *)
(* over the part of the outside world it acts on: the export tree for      *)
(* export, the destination directory for clone, the cached binding of the  *)
(* target directory for Main._setup, and the local mirror with its remote  *)
(* operations for refresh, fetch and find.                                 *)
(*                                                                         *)
(* One specification per command family (SpecExport, SpecClone, SpecSetup, *)
(* SpecRefresh); the variables of the other families stay at their initial *)
(* values.  Spec is their union: one process at a time, any command.       *)
(***************************************************************************)
EXTENDS Integers, Sequences, FiniteSets, TLC

VARIABLES
    \* ---- export: the tree under <project>/../export/<project-id>/ ----
    clock,        \* number of datetime.now() readings handed out so far
    dirs,         \* the snapshot directories that exist
    files,        \* the files that exist: [dir, name, by]
    LATEST,       \* what is at export_base/LATEST: [kind, target]
    \* ---- export: the running process ----
    epc,          \* position of Main.export
    eopt,         \* [cwd, ttl, json, datasets]
    mode,         \* "none" | "dataset" | "project"
    timestamp,    \* cli.py:496
    dump_path,    \* cli.py:504 / cli.py:548
    todo,         \* the outputs still to be written, in the order of the code
    eout,         \* "none" | "ok" | "exit123" | "TypeError" | "FileExistsError"
    pre,          \* history: dirs, files and LATEST when this export began
    \* ---- clone ----
    in_project,   \* the current directory lies inside a project root
    dest,         \* the directory <cwd>/<project_name> of each project
    secrets,      \* the project ids an api secret is configured for
    cpc,          \* position of Main.clone
    project_id,   \* self.options.project_id
    anchor_built, \* the BlackfynnCache object of cli.py:352 exists
    in_anchor,    \* inside `with anchor:` (cli.py:358)
    pulled,       \* self.pull() was called
    cexit,        \* exit status of the process; NotExited while it runs
    cpre,         \* history: dest when this clone began
    \* ---- Main.__init__ and Main._setup ----
    binding,      \* where the cached binding of each target directory is
    spc,          \* position of Main.__init__ / Main._setup
    sopt,         \* [cmd, pretend, project_path]
    ctx,          \* [anchor, project_path, summary, bfl]
    sout,         \* "none" | "exit111" | "NotImplementedError" | "ran"
    \* ---- refresh, fetch, find ----
    rpc,          \* position of the command
    rcmd,         \* "none" | "refresh" | "fetch" | "find"
    ropt,         \* the options the command reads
    rargs,        \* self.paths: the <path>... arguments
    rnames,       \* self.options.name: the --name patterns
    rcwd,         \* Path.cwd() when the command began
    chdir,        \* refresh changed the working directory (cli.py:450)
    drs,          \* cli.py:418
    batch,        \* the paths of the batch of remote operations under way
    ops,          \* the remote operations issued so far
    outcomes,     \* what each r.update_cache() of the loop of cli.py:427 did
    moved,        \* cli.py:425
    parent_moved, \* cli.py:426
    rout,         \* what was printed and logged, in order
    rerr,         \* the exception that ended the command, or "none"
    n_skipped,    \* cli.py:690
    \* ---- functions called on their own ----
    call,         \* the function and its arguments
    returned,     \* the call has ended
    ret           \* what it returned or raised

exportVars == <<clock, dirs, files, LATEST, epc, eopt, mode, timestamp,
                dump_path, todo, eout, pre>>

cloneVars == <<in_project, dest, secrets, cpc, project_id, anchor_built,
               in_anchor, pulled, cexit, cpre>>

setupVars == <<binding, spc, sopt, ctx, sout>>

refreshVars == <<rpc, rcmd, ropt, rargs, rnames, rcwd, chdir, drs, batch, ops,
                 outcomes, moved, parent_moved, rout, rerr, n_skipped>>

callVars == <<call, returned, ret>>

vars == <<exportVars, cloneVars, setupVars, refreshVars, callVars>>

----------------------------------------------------------------------------
(* Bounds *)

\* how many times export is run
MaxExports == 3

----------------------------------------------------------------------------
(* Export: paths and file system *)

\* `for d in summary` (cli.py:584): the datasets of the project, in order
DatasetIds == <<"N:dataset:1", "N:dataset:2">>

\* `for xml_name, xml in summary.xml` (cli.py:562)
XmlNames == <<"errors">>

\* `for table_name, tabular in summary.disco` (cli.py:573-574)
TableNames == <<"datasets", "contributors", "subjects", "samples", "resources">>

Range(s) == {s[i] : i \in DOMAIN s}

\* a directory under export_base: export_base[/datasets/<ds>]/<ts>[/<sub>]
NoPath == [ds |-> "", ts |-> 0, sub |-> "none"]

\* export_base / timestamp  (cli.py:548)
ProjectDumpPath(ts) == [ds |-> "", ts |-> ts, sub |-> ""]

\* export_base / 'datasets' / ft.id / timestamp  (cli.py:504)
DatasetDumpPath(id, ts) == [ds |-> id, ts |-> ts, sub |-> ""]

\* dump_path / 'datasets'  (cli.py:580)
DatasetsSubdir(p) == [p EXCEPT !.sub = "datasets"]

\* the directory a LATEST beside the snapshot p would live in
IsProjectSnapshot(p) == p.ds = "" /\ p.sub = "" /\ p.ts > 0

Absent == [kind |-> "absent", target |-> NoPath]
Symlink(p) == [kind |-> "symlink", target |-> p]
PlainFile == [kind |-> "file", target |-> NoPath]
PlainDir == [kind |-> "dir", target |-> NoPath]
\* a link left behind after its snapshot was removed by hand
Dangling == Symlink([ds |-> "", ts |-> 0, sub |-> ""])

\* Path.exists() follows symbolic links (cli.py:508, cli.py:552)
LatestExists ==
    \/ LATEST.kind \in {"file", "dir"}
    \/ LATEST.kind = "symlink" /\ LATEST.target \in dirs

\* Path.is_symlink() (cli.py:509, cli.py:553)
LatestIsSymlink == LATEST.kind = "symlink"

----------------------------------------------------------------------------
(* Export: the decisions of Main.export *)

CwdChoices ==
    {[kind |-> "anchor", id |-> ""], [kind |-> "other", id |-> ""]}
    \cup {[kind |-> "dataset", id |-> DatasetIds[i]] : i \in DOMAIN DatasetIds}

NoOpt == [cwd |-> [kind |-> "anchor", id |-> ""], ttl |-> FALSE, json |-> FALSE,
          datasets |-> FALSE]

\* cwd.cache.is_dataset: the directory corresponds to one remote dataset
IsDataset(cwd) == cwd.kind = "dataset"

\* cli.py:497
FormatSpecified(o) == o.ttl \/ o.json

\* a mode with the exit of cli.py:499-501 taken for every directory below
\* the anchor
ExportModeNoDatasetCheck(o) ==
    IF o.cwd.kind # "anchor" /\ FormatSpecified(o) THEN "dataset" ELSE "project"

\* cli.py:498-501 and the fall through to cli.py:544
ExportMode(o) ==
    IF o.cwd.kind # "anchor" /\ FormatSpecified(o)
    THEN IF ~IsDataset(o.cwd) THEN "exit123" ELSE "dataset"
    ELSE "project"

\* cli.py:504 and cli.py:548
DumpPathOf(m, o, ts) ==
    CASE m = "dataset" -> DatasetDumpPath(o.cwd.id, ts)
      [] m = "project" -> ProjectDumpPath(ts)
      [] OTHER -> NoPath

Out(d, n) == [op |-> "write", dir |-> d, name |-> n]
MkdirOp(d) == [op |-> "mkdir", dir |-> d, name |-> ""]

\* cli.py:519-538: json first, then ttl
DatasetOutputs(o, dp) ==
    (IF o.json THEN <<Out(dp, "curation-export.json")>> ELSE <<>>)
    \o (IF o.ttl THEN <<Out(dp, "curation-export.ttl")>> ELSE <<>>)

\* cli.py:562-577: xml, json, ttl, tsv
ProjectWideOutputs(dp) ==
    [i \in DOMAIN XmlNames |-> Out(dp, "curation-export." \o XmlNames[i] \o ".xml")]
    \o <<Out(dp, "curation-export.json"), Out(dp, "curation-export.ttl")>>
    \o [i \in DOMAIN TableNames |->
            Out(dp, "curation-export." \o TableNames[i] \o ".tsv")]

\* cli.py:579-590: the datasets/ subdirectory and one ttl per dataset
PerDatasetOutputs(dp) ==
    <<MkdirOp(DatasetsSubdir(dp))>>
    \o [i \in DOMAIN DatasetIds |->
            Out(DatasetsSubdir(dp), DatasetIds[i] \o ".ttl")]

\* the datasets branch taken in place of the project-wide outputs
ProjectOutputsDatasetsOnly(o, dp) ==
    IF o.datasets THEN PerDatasetOutputs(dp) ELSE ProjectWideOutputs(dp)

\* cli.py:560-592: everything a project-wide export writes, in order
ProjectOutputs(o, dp) ==
    ProjectWideOutputs(dp)
    \o (IF o.datasets THEN PerDatasetOutputs(dp) ELSE <<>>)

Outputs(m, o, dp) ==
    IF m = "dataset" THEN DatasetOutputs(o, dp) ELSE ProjectOutputs(o, dp)

----------------------------------------------------------------------------
(* Export: initial state *)

NoPre == [dirs |-> {}, files |-> {}, LATEST |-> Absent]

InitExport ==
    /\ clock = 0
    /\ dirs = {}
    /\ files = {}
    /\ LATEST \in {Absent, PlainFile, PlainDir, Dangling}
    /\ epc = "idle"
    /\ eopt = NoOpt
    /\ mode = "none"
    /\ timestamp = 0
    /\ dump_path = NoPath
    /\ todo = <<>>
    /\ eout = "none"
    /\ pre = NoPre

----------------------------------------------------------------------------
(* Export: the steps of Main.export *)

\* cli.py:495-504, 544-549: read the clock, choose the mode and the dump path
ExportBegin(o) ==
    /\ epc = "idle"
    /\ clock < MaxExports
    /\ clock' = clock + 1
    /\ timestamp' = clock + 1
    /\ eopt' = o
    /\ mode' = ExportMode(o)
    /\ dump_path' = DumpPathOf(ExportMode(o), o, clock + 1)
    /\ pre' = [dirs |-> dirs, files |-> files, LATEST |-> LATEST]
    /\ IF ExportMode(o) = "exit123"
       THEN epc' = "failed" /\ eout' = "exit123"
       ELSE epc' = "mkdir" /\ eout' = "none"
    /\ UNCHANGED <<dirs, files, LATEST, todo>>
    /\ UNCHANGED <<cloneVars, setupVars, refreshVars, callVars>>

\* the new directory made and the outputs started with LATEST left as it was
ExportMkdirNoRelink ==
    /\ epc = "mkdir"
    /\ dirs' = dirs \cup {dump_path}
    /\ epc' = "write"
    /\ todo' = Outputs(mode, eopt, dump_path)
    /\ UNCHANGED <<clock, files, LATEST, eopt, mode, timestamp, dump_path, eout, pre>>
    /\ UNCHANGED <<cloneVars, setupVars, refreshVars, callVars>>

\* cli.py:506-507, 550-551
ExportMkdir ==
    /\ epc = "mkdir"
    /\ IF dump_path \notin dirs
       THEN dirs' = dirs \cup {dump_path} /\ epc' = "unlink" /\ todo' = todo
       ELSE dirs' = dirs /\ epc' = "write" /\ todo' = Outputs(mode, eopt, dump_path)
    /\ UNCHANGED <<clock, files, LATEST, eopt, mode, timestamp, dump_path, eout, pre>>
    /\ UNCHANGED <<cloneVars, setupVars, refreshVars, callVars>>

\* the unlink of cli.py:512/556 done whatever LATEST is
ExportUnlinkUnchecked ==
    /\ epc = "unlink"
    /\ LATEST' = IF LatestExists THEN Absent ELSE LATEST
    /\ epc' = "symlink"
    /\ UNCHANGED <<clock, dirs, files, eopt, mode, timestamp, dump_path, todo, eout, pre>>
    /\ UNCHANGED <<cloneVars, setupVars, refreshVars, callVars>>

\* cli.py:508-512, 552-556
ExportUnlink ==
    /\ epc = "unlink"
    /\ IF LatestExists
       THEN IF ~LatestIsSymlink
            THEN epc' = "failed" /\ eout' = "TypeError" /\ LATEST' = LATEST
            ELSE epc' = "symlink" /\ eout' = eout /\ LATEST' = Absent
       ELSE epc' = "symlink" /\ eout' = eout /\ LATEST' = LATEST
    /\ UNCHANGED <<clock, dirs, files, eopt, mode, timestamp, dump_path, todo, pre>>
    /\ UNCHANGED <<cloneVars, setupVars, refreshVars, callVars>>

\* the link of cli.py:514/558 left out when a LATEST was there before
ExportSymlinkOnlyFirst ==
    /\ epc = "symlink"
    /\ LATEST' = IF pre.LATEST.kind = "absent" THEN Symlink(dump_path) ELSE pre.LATEST
    /\ epc' = "write"
    /\ todo' = Outputs(mode, eopt, dump_path)
    /\ UNCHANGED <<clock, dirs, files, eopt, mode, timestamp, dump_path, eout, pre>>
    /\ UNCHANGED <<cloneVars, setupVars, refreshVars, callVars>>

\* cli.py:514, 558: os.symlink fails when something is at the link's path
ExportSymlink ==
    /\ epc = "symlink"
    /\ IF LATEST.kind # "absent"
       THEN epc' = "failed" /\ eout' = "FileExistsError" /\ LATEST' = LATEST /\ todo' = todo
       ELSE /\ epc' = "write"
            /\ eout' = eout
            /\ LATEST' = Symlink(dump_path)
            /\ todo' = Outputs(mode, eopt, dump_path)
    /\ UNCHANGED <<clock, dirs, files, eopt, mode, timestamp, dump_path, pre>>
    /\ UNCHANGED <<cloneVars, setupVars, refreshVars, callVars>>

\* cli.py:535-538, 562-577, 581, 584-588: the next output
ExportWrite ==
    /\ epc = "write"
    /\ todo # <<>>
    /\ LET it == Head(todo) IN
         IF it.op = "mkdir"
         THEN dirs' = dirs \cup {it.dir} /\ files' = files
         ELSE /\ dirs' = dirs
              /\ files' = {f \in files : ~(f.dir = it.dir /\ f.name = it.name)}
                            \cup {[dir |-> it.dir, name |-> it.name, by |-> timestamp]}
    /\ todo' = Tail(todo)
    /\ UNCHANGED <<clock, LATEST, epc, eopt, mode, timestamp, dump_path, eout, pre>>
    /\ UNCHANGED <<cloneVars, setupVars, refreshVars, callVars>>

\* cli.py:542, 592 and the end of the method
ExportReturn ==
    /\ epc = "write"
    /\ todo = <<>>
    /\ epc' = "done"
    /\ eout' = "ok"
    /\ UNCHANGED <<clock, dirs, files, LATEST, eopt, mode, timestamp, dump_path, todo, pre>>
    /\ UNCHANGED <<cloneVars, setupVars, refreshVars, callVars>>

\* cli.py:973-982: the process ends; the next invocation starts afresh
ExportExit ==
    /\ epc \in {"done", "failed"}
    /\ epc' = "idle"
    /\ eopt' = NoOpt
    /\ mode' = "none"
    /\ timestamp' = 0
    /\ dump_path' = NoPath
    /\ todo' = <<>>
    /\ eout' = "none"
    /\ pre' = NoPre
    /\ UNCHANGED <<clock, dirs, files, LATEST>>
    /\ UNCHANGED <<cloneVars, setupVars, refreshVars, callVars>>

ExportOptions ==
    [cwd : CwdChoices, ttl : BOOLEAN, json : BOOLEAN, datasets : BOOLEAN]

NextExport ==
    \/ \E o \in ExportOptions : ExportBegin(o)
    \/ ExportMkdir
    \/ ExportUnlink
    \/ ExportSymlink
    \/ ExportWrite
    \/ ExportReturn
    \/ ExportExit

----------------------------------------------------------------------------
(* Export: properties *)

Written(it) ==
    IF it.op = "mkdir"
    THEN it.dir \in dirs
    ELSE \E f \in files : f.dir = it.dir /\ f.name = it.name

AllWritten(seq) == \A i \in DOMAIN seq : Written(seq[i])

InSnapshot(f, dp) == f.dir = dp \/ f.dir = DatasetsSubdir(dp)

\* C1: when a project-wide export has returned, LATEST is a symbolic link to
\* the snapshot directory of this export, which is the newest project
\* snapshot; this export made exactly one new snapshot directory, and every
\* file that existed before it is still there, unchanged.
C1_LatestIsNewestSnapshot ==
    (epc = "done" /\ mode = "project") =>
        /\ LATEST = Symlink(dump_path)
        /\ dump_path = ProjectDumpPath(timestamp)
        /\ \A p \in dirs : IsProjectSnapshot(p) => p.ts <= dump_path.ts
        /\ dump_path \notin pre.dirs
        /\ {p \in dirs : p.sub = ""} = {p \in pre.dirs : p.sub = ""} \cup {dump_path}
        /\ \A f \in pre.files : f \in files
        /\ \A f \in files : f \notin pre.files => InSnapshot(f, dump_path)

\* C1 witness: a second project-wide export has returned; the LATEST it found
\* pointed at an earlier project snapshot that held files.
C1_Witness ==
    /\ epc = "done"
    /\ mode = "project"
    /\ pre.LATEST.kind = "symlink"
    /\ IsProjectSnapshot(pre.LATEST.target)
    /\ pre.LATEST.target # dump_path
    /\ \E f \in pre.files : f.dir = pre.LATEST.target

\* C2 as stated: whenever LATEST points at the snapshot of the running
\* export, every output of that snapshot has been written.
C2_Original ==
    (epc # "idle" /\ LATEST = Symlink(dump_path)) =>
        AllWritten(Outputs(mode, eopt, dump_path))

\* C2 amended: LATEST is unlinked and relinked to the new snapshot directory
\* before the first output of that snapshot is written: no output exists
\* before the relink, and all the time the outputs are being written LATEST
\* already points at the new, still incomplete, snapshot.
C2_RelinkBeforeWrites ==
    /\ epc \in {"mkdir", "unlink", "symlink", "failed"} =>
            ~ \E f \in files : InSnapshot(f, dump_path)
    /\ epc \in {"write", "done"} => LATEST = Symlink(dump_path)

\* C2 witness: LATEST points at the snapshot being written while one output
\* is there and others are still to come.
C2_Witness ==
    /\ epc = "write"
    /\ LATEST = Symlink(dump_path)
    /\ todo # <<>>
    /\ \E f \in files : f.dir = dump_path
    /\ ~AllWritten(Outputs(mode, eopt, dump_path))

\* C3 as stated: export/<project-id>/LATEST only ever points at a
\* project-wide snapshot, a sibling of it, whatever exports have run.
C3_LatestIsSibling ==
    (LATEST.kind = "symlink" /\ LATEST.target \in dirs) =>
        IsProjectSnapshot(LATEST.target)

\* C4: an export that finds a LATEST that is not a symbolic link never
\* changes it, writes no file, never reaches the writing of outputs, and
\* (once past the choice of mode) ends with the TypeError.
C4_NonSymlinkLatestIsFatal ==
    (epc # "idle" /\ pre.LATEST.kind \in {"file", "dir"}) =>
        /\ LATEST = pre.LATEST
        /\ files = pre.files
        /\ epc \notin {"symlink", "write", "done"}
        /\ (epc = "failed" /\ mode # "exit123") => eout = "TypeError"

\* C4 witness: a single-dataset export has failed on a plain file at LATEST,
\* after making its snapshot directory.
C4_Witness ==
    /\ epc = "failed"
    /\ eout = "TypeError"
    /\ mode = "dataset"
    /\ pre.LATEST = PlainFile
    /\ dump_path \in dirs

\* C5 as stated: a project-wide export with the datasets flag has written
\* one ttl per dataset under datasets/ and none of the project-wide outputs.
C5_Original ==
    (epc = "done" /\ mode = "project" /\ eopt.datasets) =>
        /\ AllWritten(PerDatasetOutputs(dump_path))
        /\ ~ \E f \in files : f.dir = dump_path

\* C5 amended: a project-wide export with the datasets flag writes the
\* project-wide XML, JSON, Turtle and TSV outputs first and then one ttl
\* per dataset under datasets/; when it returns the snapshot holds both.
C5_DatasetsAfterProjectWide ==
    /\ (epc = "done" /\ mode = "project" /\ eopt.datasets) =>
            /\ AllWritten(PerDatasetOutputs(dump_path))
            /\ AllWritten(ProjectWideOutputs(dump_path))
            /\ Cardinality({f \in files : f.dir = DatasetsSubdir(dump_path)})
                   = Len(DatasetIds)
    /\ (epc = "write" /\ mode = "project"
            /\ \E f \in files : f.dir = DatasetsSubdir(dump_path)) =>
            AllWritten(ProjectWideOutputs(dump_path))

\* C5 witness: such an export has returned.
C5_Witness ==
    /\ epc = "done"
    /\ mode = "project"
    /\ eopt.datasets
    /\ \E f \in files : f.dir = DatasetsSubdir(dump_path)
    /\ \E f \in files : f.dir = dump_path /\ f.name = "curation-export.json"

----------------------------------------------------------------------------
(* Clone *)

\* the remote projects a clone may name
ProjectIds == {"N:organization:1", "N:organization:2"}

\* self.options.project_id when no id was given (cli.py:332)
None == "None"

\* sys.exit statuses of Main.clone
ExitNoProjectId == 4
ExitMissingSecret == 11
ExitInProject == 3
ExitDestNotEmpty == 2
\* the method returned
ExitOk == 0
\* the process is still running
NotExited == -1

\* anchor_local.find_cache_root() (cli.py:345-346): the project root the
\* current location lies in, if any
FindCacheRoot == IF in_project THEN "root" ELSE None

InitClone ==
    /\ in_project \in BOOLEAN
    /\ dest \in [ProjectIds -> {"absent", "empty", "nonempty"}]
    /\ secrets \in SUBSET ProjectIds
    /\ cpc = "idle"
    /\ project_id = None
    /\ anchor_built = FALSE
    /\ in_anchor = FALSE
    /\ pulled = FALSE
    /\ cexit = NotExited
    /\ cpre = dest

CloneExit(status) ==
    /\ cpc' = "exited"
    /\ cexit' = status

\* cli.py:331: the process starts with its argument
CloneBegin(id) ==
    /\ cpc = "idle"
    /\ cpc' = "check_id"
    /\ project_id' = id
    /\ cpre' = dest
    /\ cexit' = NotExited
    /\ anchor_built' = FALSE
    /\ in_anchor' = FALSE
    /\ pulled' = FALSE
    /\ UNCHANGED <<in_project, dest, secrets>>
    /\ UNCHANGED <<exportVars, setupVars, refreshVars, callVars>>

\* cli.py:332-334
CloneCheckId ==
    /\ cpc = "check_id"
    /\ IF project_id = None
       THEN CloneExit(ExitNoProjectId)
       ELSE cpc' = "project_name" /\ cexit' = cexit
    /\ UNCHANGED <<in_project, dest, secrets, project_id, anchor_built, in_anchor,
                   pulled, cpre>>
    /\ UNCHANGED <<exportVars, setupVars, refreshVars, callVars>>

\* cli.py:336-342
CloneProjectName ==
    /\ cpc = "project_name"
    /\ IF project_id \notin secrets
       THEN CloneExit(ExitMissingSecret)
       ELSE cpc' = "find_root" /\ cexit' = cexit
    /\ UNCHANGED <<in_project, dest, secrets, project_id, anchor_built, in_anchor,
                   pulled, cpre>>
    /\ UNCHANGED <<exportVars, setupVars, refreshVars, callVars>>

\* the search for an enclosing project left out
CloneFindRootSkipped ==
    /\ cpc = "find_root"
    /\ cpc' = "anchor"
    /\ UNCHANGED <<in_project, dest, secrets, project_id, anchor_built, in_anchor,
                   pulled, cexit, cpre>>
    /\ UNCHANGED <<exportVars, setupVars, refreshVars, callVars>>

\* cli.py:344-350
CloneFindRoot ==
    /\ cpc = "find_root"
    /\ IF FindCacheRoot # None
       THEN CloneExit(ExitInProject)
       ELSE cpc' = "anchor" /\ cexit' = cexit
    /\ UNCHANGED <<in_project, dest, secrets, project_id, anchor_built, in_anchor,
                   pulled, cpre>>
    /\ UNCHANGED <<exportVars, setupVars, refreshVars, callVars>>

\* cli.py:352
CloneAnchor ==
    /\ cpc = "anchor"
    /\ anchor_built' = TRUE
    /\ cpc' = "check_dest"
    /\ UNCHANGED <<in_project, dest, secrets, project_id, in_anchor, pulled, cexit, cpre>>
    /\ UNCHANGED <<exportVars, setupVars, refreshVars, callVars>>

\* cli.py:353-356
CloneCheckDest ==
    /\ cpc = "check_dest"
    /\ IF dest[project_id] # "absent" /\ dest[project_id] = "nonempty"
       THEN CloneExit(ExitDestNotEmpty)
       ELSE cpc' = "with_anchor" /\ cexit' = cexit
    /\ UNCHANGED <<in_project, dest, secrets, project_id, anchor_built, in_anchor,
                   pulled, cpre>>
    /\ UNCHANGED <<exportVars, setupVars, refreshVars, callVars>>

\* cli.py:358: entering the anchor makes its directory when it is not there
CloneWithAnchor ==
    /\ cpc = "with_anchor"
    /\ dest' = [dest EXCEPT ![project_id] = IF @ = "absent" THEN "empty" ELSE @]
    /\ in_anchor' = TRUE
    /\ cpc' = "pull"
    /\ UNCHANGED <<in_project, secrets, project_id, anchor_built, pulled, cexit, cpre>>
    /\ UNCHANGED <<exportVars, setupVars, refreshVars, callVars>>

\* cli.py:359: the pull fills the anchor; then the method returns
ClonePull ==
    /\ cpc = "pull"
    /\ in_anchor
    /\ pulled' = TRUE
    /\ dest' = [dest EXCEPT ![project_id] = "nonempty"]
    /\ CloneExit(ExitOk)
    /\ UNCHANGED <<in_project, secrets, project_id, anchor_built, in_anchor, cpre>>
    /\ UNCHANGED <<exportVars, setupVars, refreshVars, callVars>>

\* cli.py:973-982: the process has ended; clone can be invoked again
CloneDone ==
    /\ cpc = "exited"
    /\ cpc' = "idle"
    /\ project_id' = None
    /\ anchor_built' = FALSE
    /\ in_anchor' = FALSE
    /\ pulled' = FALSE
    /\ cexit' = NotExited
    /\ cpre' = dest
    /\ UNCHANGED <<in_project, dest, secrets>>
    /\ UNCHANGED <<exportVars, setupVars, refreshVars, callVars>>

NextClone ==
    \/ \E id \in ProjectIds \cup {None} : CloneBegin(id)
    \/ CloneCheckId
    \/ CloneProjectName
    \/ CloneFindRoot
    \/ CloneAnchor
    \/ CloneCheckDest
    \/ CloneWithAnchor
    \/ ClonePull
    \/ CloneDone

\* the status the refusal conditions of a clone call for, in the order
\* stated; ExitOk when none holds
Refusal ==
    IF project_id = None THEN ExitNoProjectId
    ELSE IF project_id \notin secrets THEN ExitMissingSecret
    ELSE IF in_project THEN ExitInProject
    ELSE IF cpre[project_id] = "nonempty" THEN ExitDestNotEmpty
    ELSE ExitOk

----------------------------------------------------------------------------
(* Main.__init__ and Main._setup *)

\* the command forms of the usage text (cli.py:4-20); a report is named by
\* its sub-command
Commands ==
    {"clone", "pull", "refresh", "fetch", "annos", "report size",
     "report completeness", "report filetypes", "report keywords",
     "report subjects", "report errors", "report test", "tables", "missing",
     "xattrs", "export", "demos", "shell", "feedback", "find", "meta", "server"}

\* the forms that take [options], and so --pretend and --project-path
TakesOptions(cmd) ==
    cmd \in {"pull", "refresh", "fetch", "report size", "report completeness",
             "report filetypes", "report keywords", "report subjects",
             "report errors", "report test", "export", "shell", "find", "server"}

SetupOptions ==
    {o \in [cmd : Commands, pretend : BOOLEAN, project_path : BOOLEAN] :
        (o.pretend \/ o.project_path) => TakesOptions(o.cmd)}

\* cli.py:165-171
ShortCircuit(o) ==
    \/ o.cmd = "clone"
    \/ o.cmd = "meta"
    \/ o.cmd = "report size"
    \/ o.cmd = "report filetypes"
    \/ o.pretend

\* cli.py:181-188: the directory whose binding is looked up
Target(o) == IF o.project_path THEN "project_path" ELSE "cwd"

Unset == "unset"
NoCtx == [anchor |-> Unset, project_path |-> Unset, summary |-> Unset, bfl |-> Unset]
NoSopt == [cmd |-> "clone", pretend |-> FALSE, project_path |-> FALSE]

Established(c) ==
    c.anchor # Unset /\ c.project_path # Unset /\ c.summary # Unset /\ c.bfl # Unset

InitSetup ==
    /\ binding \in [{"cwd", "project_path"} -> {"self", "ancestor", "none"}]
    /\ spc = "idle"
    /\ sopt = NoSopt
    /\ ctx = NoCtx
    /\ sout = "none"

\* cli.py:157-173
MainInit(o) ==
    /\ spc = "idle"
    /\ sopt' = o
    /\ ctx' = NoCtx
    /\ sout' = "none"
    /\ spc' = IF ShortCircuit(o) THEN "call" ELSE "cache"
    /\ UNCHANGED binding
    /\ UNCHANGED <<exportVars, cloneVars, refreshVars, callVars>>

\* cli.py:179-192
SetupCache ==
    /\ spc = "cache"
    /\ IF binding[Target(sopt)] = "self"
       THEN ctx' = [ctx EXCEPT !.anchor = "anchor"] /\ spc' = "project_path"
       ELSE ctx' = ctx /\ spc' = "find_root"
    /\ UNCHANGED <<binding, sopt, sout>>
    /\ UNCHANGED <<exportVars, cloneVars, refreshVars, callVars>>

\* the binding of an ancestor taken as the project's and setup carried on
SetupFindRootRecovers ==
    /\ spc = "find_root"
    /\ IF binding[Target(sopt)] = "ancestor"
       THEN /\ ctx' = [ctx EXCEPT !.anchor = "root anchor"]
            /\ spc' = "project_path"
            /\ sout' = sout
       ELSE ctx' = ctx /\ spc' = "failed" /\ sout' = "exit111"
    /\ UNCHANGED <<binding, sopt>>
    /\ UNCHANGED <<exportVars, cloneVars, refreshVars, callVars>>

\* cli.py:193-199
SetupFindRoot ==
    /\ spc = "find_root"
    /\ IF binding[Target(sopt)] = "ancestor"
       THEN /\ ctx' = [ctx EXCEPT !.anchor = "root anchor"]
            /\ spc' = "failed"
            /\ sout' = "NotImplementedError"
       ELSE ctx' = ctx /\ spc' = "failed" /\ sout' = "exit111"
    /\ UNCHANGED <<binding, sopt>>
    /\ UNCHANGED <<exportVars, cloneVars, refreshVars, callVars>>

\* cli.py:201-212
SetupProjectPath ==
    /\ spc = "project_path"
    /\ ctx' = [ctx EXCEPT !.project_path = "local"]
    /\ spc' = "summary"
    /\ UNCHANGED <<binding, sopt, sout>>
    /\ UNCHANGED <<exportVars, cloneVars, refreshVars, callVars>>

\* cli.py:215
SetupSummary ==
    /\ spc = "summary"
    /\ ctx' = [ctx EXCEPT !.summary = "summary"]
    /\ spc' = "bfl"
    /\ UNCHANGED <<binding, sopt, sout>>
    /\ UNCHANGED <<exportVars, cloneVars, refreshVars, callVars>>

\* cli.py:217-222
SetupBfl ==
    /\ spc = "bfl"
    /\ ctx' = [ctx EXCEPT !.bfl = "bfl"]
    /\ spc' = "call"
    /\ UNCHANGED <<binding, sopt, sout>>
    /\ UNCHANGED <<exportVars, cloneVars, refreshVars, callVars>>

\* the attributes of the context that the method of a command reads when it
\* is run with no further flag: export (cli.py:544-549), annos (605), demos
\* (628), tables (656), missing (727), xattrs (730), server (766, datasets
\* is anchor.children, cli.py:234-236), the reports (882, 897, 909, 921) and
\* the shell (940-945); project_id is anchor.id (cli.py:229-232), and
\* export_base and LATEST read project_path and project_id (cli.py:478-484)
Reads(cmd) ==
    CASE cmd = "export" -> {"summary", "project_path", "anchor"}
      [] cmd \in {"annos", "tables", "report completeness", "report keywords",
                  "report subjects", "report errors"} -> {"summary"}
      [] cmd \in {"demos", "missing", "xattrs"} -> {"bfl"}
      [] cmd = "server" -> {"anchor"}
      [] cmd = "shell" -> {"anchor", "summary", "project_path"}
      [] OTHER -> {}

\* cli.py:978-982: main() calls the dispatcher, which runs the command; the
\* read of an attribute that was never assigned raises AttributeError
MainCall ==
    /\ spc = "call"
    /\ IF \E a \in Reads(sopt.cmd) : ctx[a] = Unset
       THEN spc' = "failed" /\ sout' = "AttributeError"
       ELSE spc' = "ran" /\ sout' = "ran"
    /\ UNCHANGED <<binding, sopt, ctx>>
    /\ UNCHANGED <<exportVars, cloneVars, refreshVars, callVars>>

\* the process has ended
MainDone ==
    /\ spc \in {"ran", "failed"}
    /\ spc' = "idle"
    /\ sopt' = NoSopt
    /\ ctx' = NoCtx
    /\ sout' = "none"
    /\ UNCHANGED binding
    /\ UNCHANGED <<exportVars, cloneVars, refreshVars, callVars>>

NextSetup ==
    \/ \E o \in SetupOptions : MainInit(o)
    \/ SetupCache
    \/ SetupFindRoot
    \/ SetupProjectPath
    \/ SetupSummary
    \/ SetupBfl
    \/ MainCall
    \/ MainDone

\* C8: the context is established only when the target directory itself has
\* a cached binding; with no binding on it or above it a setup that is not
\* skipped ends in exit status 111, and with a binding on an ancestor only
\* it ends in NotImplementedError; in neither case is the command run.
C8_SetupNeedsOwnBinding ==
    /\ Established(ctx) => binding[Target(sopt)] = "self"
    /\ (spc \in {"call", "ran"} /\ ~ShortCircuit(sopt)) =>
            (Established(ctx) /\ binding[Target(sopt)] = "self")
    /\ (spc \in {"failed", "call", "ran"} /\ ~ShortCircuit(sopt)
            /\ binding[Target(sopt)] = "none") =>
            (spc = "failed" /\ sout = "exit111")
    /\ (spc \in {"failed", "call", "ran"} /\ ~ShortCircuit(sopt)
            /\ binding[Target(sopt)] = "ancestor") =>
            (spc = "failed" /\ sout = "NotImplementedError")

\* C8 witness: setup has failed with NotImplementedError on a --project-path
\* whose binding is on an ancestor, the current directory being bound itself.
C8_Witness ==
    /\ spc = "failed"
    /\ sout = "NotImplementedError"
    /\ sopt.project_path
    /\ binding["project_path"] = "ancestor"
    /\ binding["cwd"] = "self"
    /\ ctx.anchor # Unset

----------------------------------------------------------------------------
(* The local mirror that refresh, fetch and find walk *)

\* the parent of each path; path 1 lies above the project and has no cached
\* binding, 2 is the project anchor, 3 a dataset, 5 a folder in it
Parent == <<0, 1, 2, 3, 3, 5, 2, 7, 7, 9, 9>>

Nodes == DOMAIN Parent

\* "link" is a broken placeholder link: a file whose content is not fetched
Kind == <<"dir", "dir", "dir", "link", "dir", "file", "dir", "dir", "dir", "dir", "file">>

PathName ==
    <<"home", "project", "dataset", "a.ext", "sub", "b.ext", "dataset2", "empty", "full",
      "nested", "c.ext">>

\* 1024 ** 2 (core.py:235)
MB == 1048576

\* p.cache.meta.size is None
NoSize == -1

\* p.cache.meta.size, in bytes
CachedSize ==
    <<NoSize, NoSize, NoSize, 2 * MB, NoSize, 100, NoSize, NoSize, NoSize, NoSize, 100>>

\* the paths whose cached metadata carries a file_id
WithFileId == {6}

\* the metadata files FTLax(p).meta_paths gives for a directory
MetaFiles == {4}

IsDir(p) == Kind[p] = "dir"

\* Path.is_broken_symlink()
IsBrokenSymlink(p) == Kind[p] = "link"

\* Path.exists() follows links: a broken placeholder link does not exist
Exists(p) == Kind[p] # "link"

\* `parent.cache is not None` (cli.py:402)
HasCache(p) == p # 1

\* len(p.parts)
RECURSIVE Depth(_)
Depth(p) == IF Parent[p] = 0 THEN 1 ELSE 1 + Depth(Parent[p])

\* the members of a set of paths in ascending order
RECURSIVE Ascending(_)
Ascending(S) ==
    IF S = {} THEN <<>>
    ELSE LET lo == CHOOSE x \in S : \A y \in S : x <= y
         IN <<lo>> \o Ascending(S \ {lo})

\* path.children
Children(p) == Ascending({c \in Nodes : Parent[c] = p})

RECURSIVE Flatten(_)
Flatten(ss) == IF ss = <<>> THEN <<>> ELSE Head(ss) \o Flatten(Tail(ss))

\* path.rchildren: every descendant, depth first
RECURSIVE RChildren(_)
RChildren(p) ==
    Flatten([i \in DOMAIN Children(p) |->
                <<Children(p)[i]>> \o RChildren(Children(p)[i])])

\* path.parents: the ancestors, nearest first
RECURSIVE Parents(_)
Parents(p) == IF Parent[p] = 0 THEN <<>> ELSE <<Parent[p]>> \o Parents(Parent[p])

\* self.options.level is None (cli.py:115-117)
NoLevel == -1

\* cli.py:286-287, 307-308
NoFileId(p) == IsBrokenSymlink(p) /\ p \notin WithFileId

\* the recursion of cli.py:313 stopping one level earlier
RECURSIVE InnerStrict(_, _, _)
InnerStrict(paths, level, o) ==
    IF paths = <<>> THEN <<>>
    ELSE
      LET path == Head(paths)
          \* cli.py:285-302; skip is the `continue`
          first ==
            IF o.only_no_file_id
            THEN IF NoFileId(path)
                 THEN [yield |-> <<path>>, skip |-> TRUE]
                 ELSE [yield |-> <<>>, skip |-> FALSE]
            ELSE IF o.empty
            THEN IF IsDir(path)
                 THEN [yield |-> IF Children(path) = <<>> THEN <<path>> ELSE <<>>,
                       skip |-> FALSE]
                 ELSE [yield |-> <<>>, skip |-> TRUE]
            ELSE [yield |-> <<path>>, skip |-> FALSE]
          \* cli.py:304-314
          below ==
            IF first.skip THEN <<>>
            ELSE IF o.level = NoLevel
            THEN IF o.only_no_file_id
                 THEN SelectSeq(RChildren(path), NoFileId)
                 ELSE RChildren(path)
            ELSE IF level < o.level
            THEN InnerStrict(Children(path), level + 1, o)
            ELSE <<>>
      IN first.yield \o below \o InnerStrict(Tail(paths), level, o)

\* cli.py:282-314: inner(paths, level, stop) with stop = o.level
RECURSIVE Inner(_, _, _)
Inner(paths, level, o) ==
    IF paths = <<>> THEN <<>>
    ELSE
      LET path == Head(paths)
          \* cli.py:285-302; skip is the `continue`
          first ==
            IF o.only_no_file_id
            THEN IF NoFileId(path)
                 THEN [yield |-> <<path>>, skip |-> TRUE]
                 ELSE [yield |-> <<>>, skip |-> FALSE]
            ELSE IF o.empty
            THEN IF IsDir(path)
                 THEN [yield |-> IF Children(path) = <<>> THEN <<path>> ELSE <<>>,
                       skip |-> FALSE]
                 ELSE [yield |-> <<>>, skip |-> TRUE]
            ELSE [yield |-> <<path>>, skip |-> FALSE]
          \* cli.py:304-314
          below ==
            IF first.skip THEN <<>>
            ELSE IF o.level = NoLevel
            THEN IF o.only_no_file_id
                 THEN SelectSeq(RChildren(path), NoFileId)
                 ELSE RChildren(path)
            ELSE IF level <= o.level
            THEN Inner(Children(path), level + 1, o)
            ELSE <<>>
      IN first.yield \o below \o Inner(Tail(paths), level, o)

\* cli.py:281-316
BuildPaths(paths, o) == Inner(paths, 0, o)

\* cli.py:270-272, 394-397
PathsOrCwd(args, cwd) == IF args = <<>> THEN <<cwd>> ELSE args

\* cli.py:263-279
AllPaths(args, cwd, o) ==
    IF o.only_meta
    THEN Flatten([i \in DOMAIN PathsOrCwd(args, cwd) |->
            SelectSeq(Children(PathsOrCwd(args, cwd)[i]), LAMBDA c : c \in MetaFiles)])
    ELSE BuildPaths(PathsOrCwd(args, cwd), o)

\* cli.py:318-322
Dirs(args, cwd, o) == SelectSeq(AllPaths(args, cwd, o), IsDir)

\* cli.py:324-328
NotDirs(args, cwd, o) == SelectSeq(AllPaths(args, cwd, o), LAMBDA p : ~IsDir(p))

\* a sequence of paths sorted by len(p.parts)
RECURSIVE ByDepth(_)
ByDepth(S) ==
    IF S = {} THEN <<>>
    ELSE LET lo == CHOOSE x \in S :
                     \A y \in S : Depth(x) < Depth(y) \/ (Depth(x) = Depth(y) /\ x <= y)
         IN <<lo>> \o ByDepth(S \ {lo})

\* cli.py:399-403
ToRoot(args, cwd) ==
    LET ps == PathsOrCwd(args, cwd)
    IN ByDepth({q \in Nodes :
                  /\ HasCache(q)
                  /\ \E i \in DOMAIN ps : \E j \in DOMAIN Parents(ps[i]) :
                        Parents(ps[i])[j] = q})

\* cli.py:146-148: the size cell of a row is a number
NumericCell(p) == ~IsDir(p) /\ CachedSize[p] # NoSize /\ CachedSize[p] # 0

\* cli.py:138-149: with --sort-size-desc the key negates the size cell,
\* which raises TypeError on '/', '??' and '_'
PrintPathsRaises(ps, o) ==
    o.sort_size_desc /\ \E i \in DOMAIN ps : ~NumericCell(ps[i])

----------------------------------------------------------------------------
(* Options of refresh, fetch and find *)

\* Options.limit (cli.py:109-113): None when the value is negative
NoLimit == -1
Limit(l) == IF l >= 0 THEN l ELSE NoLimit

\* n_skipped is not bound (cli.py:690 not reached)
Unbound == -1

\* no option that selects paths is given
DefaultMode ==
    [level |-> NoLevel, empty |-> FALSE, only_no_file_id |-> FALSE, only_meta |-> FALSE]

\* the traversal options a refresh, fetch or find may carry: none, or one
PathModes ==
    {DefaultMode,
     [level |-> 0, empty |-> FALSE, only_no_file_id |-> FALSE, only_meta |-> FALSE],
     [level |-> NoLevel, empty |-> TRUE, only_no_file_id |-> FALSE, only_meta |-> FALSE],
     [level |-> NoLevel, empty |-> FALSE, only_no_file_id |-> TRUE, only_meta |-> FALSE],
     [level |-> NoLevel, empty |-> FALSE, only_no_file_id |-> FALSE, only_meta |-> TRUE]}

\* <<the <path>... arguments, the working directory>>: no argument, one
\* path, two paths one above the other in either order, a link and a file
Invocations ==
    {<<<<>>, 3>>, <<<<>>, 5>>, <<<<3>>, 3>>, <<<<5>>, 3>>, <<<<6>>, 5>>,
     <<<<3, 5>>, 3>>, <<<<5, 3>>, 5>>, <<<<4, 6>>, 3>>}

\* the directories the command is run from
CwdDirs == {3, 5}

\* --name patterns
Patterns == {"*", "*.ext", "sub", "none"}

\* fnmatch of a path's name against a pattern
Matches(pat, p) ==
    CASE pat = "*" -> TRUE
      [] pat = "*.ext" -> PathName[p] \in {"a.ext", "b.ext"}
      [] pat = "sub" -> PathName[p] = "sub"
      [] OTHER -> FALSE

\* path.rglob(pattern) (cli.py:673)
RGlob(cwd, pat) == SelectSeq(RChildren(cwd), LAMBDA p : Matches(pat, p))

NameArgs == {<<"*">>, <<"*.ext">>, <<"sub">>, <<"none">>, <<"*.ext", "*">>}

\* -l values: negative (no limit), 0, 1, 2 (the default), 3
LimitArgs == {-1, 0, 1, 2, 3}

NoFlags ==
    [pretend |-> FALSE, debug |-> FALSE, fetch |-> FALSE, refresh |-> FALSE,
     verbose |-> FALSE, exists |-> FALSE, sort_size_desc |-> FALSE, limit |-> NoLimit,
     level |-> NoLevel, empty |-> FALSE, only_no_file_id |-> FALSE, only_meta |-> FALSE]

WithMode(f, pm) ==
    [f EXCEPT !.level = pm.level, !.empty = pm.empty,
              !.only_no_file_id = pm.only_no_file_id, !.only_meta = pm.only_meta]

\* spc refresh [options] [<path>...]: the options refresh reads; every
\* selection of paths with and without --pretend, and the other flags with
\* the default selection
RefreshOptions ==
    {WithMode([NoFlags EXCEPT !.pretend = pr, !.limit = Limit(2)], pm) :
        pr \in BOOLEAN, pm \in PathModes}
    \cup {[NoFlags EXCEPT !.debug = f[1], !.fetch = f[2], !.sort_size_desc = f[3],
                          !.pretend = f[4], !.limit = Limit(2)] :
            f \in {<<TRUE, FALSE, FALSE, FALSE>>, <<FALSE, TRUE, FALSE, FALSE>>,
                   <<FALSE, FALSE, TRUE, FALSE>>, <<FALSE, TRUE, TRUE, TRUE>>}}

\* spc fetch [options] [<path>...]: the options fetch reads
FetchOptions ==
    {WithMode([NoFlags EXCEPT !.pretend = f[1], !.sort_size_desc = f[2],
                              !.limit = Limit(f[3])], pm) :
        f \in BOOLEAN \X BOOLEAN \X {-1, 2}, pm \in PathModes}

\* spc find [options] --name=<PAT>...: the options find reads
FindOptions ==
    {[NoFlags EXCEPT !.pretend = f[1], !.fetch = f[2], !.refresh = f[3],
                     !.verbose = f[4], !.exists = f[5], !.sort_size_desc = f[6],
                     !.limit = Limit(f[7])] :
        f \in BOOLEAN \X BOOLEAN \X BOOLEAN \X BOOLEAN \X BOOLEAN \X BOOLEAN \X LimitArgs}

\* `if self.options.limit:` (cli.py:679)
Truthy(l) == l # NoLimit /\ l # 0

\* the filter without its clause for truncated transfers
KeepsNotTruncated(cached, exists, actual, o) ==
    \/ cached = NoSize
    \/ o.exists
    \/ ~exists /\ cached < o.limit * MB

\* cli.py:681-688: the test of find's filter, for a path of this cached
\* size (p.cache.meta.size), p.exists() and actual size (p.size);
\* size.mb < limit is size / 1024 ** 2 < limit
Keeps(cached, exists, actual, o) ==
    \/ cached = NoSize
    \/ o.exists
    \/ ~exists /\ cached < o.limit * MB
    \/ exists /\ actual # cached /\ cached < o.limit * MB

\* cli.py:686-687: the test reaches log.info('Truncated transfer detected')
\* when the operands before it, in the order of evaluation, let it
LogsTruncated(cached, exists, actual, o) ==
    /\ cached # NoSize
    /\ ~o.exists
    /\ ~(~exists /\ cached < o.limit * MB)
    /\ exists
    /\ actual # cached

\* cli.py:681-688: the test of find's filter on one path of the mirror
FindKeeps(p, actual, o) == Keeps(CachedSize[p], Exists(p), actual, o)

\* p.size of the local copy of an existing file
ActualSize == <<0, 0, 0, 0, 0, 100, 0, 0, 0, 0, 100>>

\* cli.py:677
FindCandidates(cwd, names) ==
    SelectSeq(Flatten([i \in DOMAIN names |-> RGlob(cwd, names[i])]),
              LAMBDA p : ~IsDir(p))

\* cli.py:679-688
FindPaths(cwd, names, o) ==
    IF Truthy(o.limit)
    THEN SelectSeq(FindCandidates(cwd, names), LAMBDA p : FindKeeps(p, ActualSize[p], o))
    ELSE FindCandidates(cwd, names)

\* cli.py:690
NSkipped(cwd, names, o) ==
    IF Truthy(o.limit)
    THEN Cardinality({p \in Range(FindCandidates(cwd, names)) : IsBrokenSymlink(p)}
                        \ Range(FindPaths(cwd, names, o)))
    ELSE Unbound

----------------------------------------------------------------------------
(* refresh, fetch, find: state *)

\* one remote operation: r.refresh(), r.update_cache(),
\* path.remote.refresh(update_cache=True, update_data=...), path.cache.fetch()
Op(kind, i, p, data) == [kind |-> kind, idx |-> i, path |-> p, update_data |-> data]

\* one thing printed or logged
Printed(what, rows) == [what |-> what, rows |-> rows, n |-> Len(rows)]

\* the results r.update_cache() can have (cli.py:429-443): the same local
\* path, a new local path, FileNotFoundError, OSError with errno ENOTEMPTY,
\* OSError with another errno
UpdateResults == {"same", "moved", "FileNotFoundError", "ENOTEMPTY", "OSError"}

InitRefresh ==
    /\ rpc = "idle"
    /\ rcmd = "none"
    /\ ropt = NoFlags
    /\ rargs = <<>>
    /\ rnames = <<>>
    /\ rcwd = 3
    /\ chdir = FALSE
    /\ drs = <<>>
    /\ batch = <<>>
    /\ ops = {}
    /\ outcomes = <<>>
    /\ moved = <<>>
    /\ parent_moved = <<>>
    /\ rout = <<>>
    /\ rerr = "none"
    /\ n_skipped = Unbound

OpsOf(kind) == {o \in ops : o.kind = kind}

\* the items of a batch of n that no operation of this kind has reached
Pending(kind, n) == {i \in 1..n : ~ \E o \in OpsOf(kind) : o.idx = i}

\* Async runs the items of a batch in any order; under --debug the code
\* loops over them in order (cli.py:420-423, 455-465)
MayRun(i, kind, n, sequential) ==
    /\ i \in Pending(kind, n)
    /\ sequential => \A j \in Pending(kind, n) : i <= j

Begin(cmd, o, args, names, cwd) ==
    /\ rpc = "idle"
    /\ rcmd' = cmd
    /\ ropt' = o
    /\ rargs' = args
    /\ rnames' = names
    /\ rcwd' = cwd
    /\ UNCHANGED <<chdir, drs, batch, ops, outcomes, moved, parent_moved, rout, rerr, n_skipped>>
    /\ UNCHANGED <<exportVars, cloneVars, setupVars, callVars>>

----------------------------------------------------------------------------
(* refresh *)

\* cli.py:393-397
RefreshBegin(o, args, cwd) ==
    /\ Begin("refresh", o, args, <<>>, cwd)
    /\ rpc' = "print"

\* the pretend test of cli.py:405 left out
RefreshPrintIgnoresPretend ==
    /\ rpc = "print"
    /\ rcmd = "refresh"
    /\ LET ap == ToRoot(rargs, rcwd) \o AllPaths(rargs, rcwd, ropt) IN
         IF PrintPathsRaises(ap, ropt)
         THEN rpc' = "failed" /\ rerr' = "TypeError" /\ rout' = rout /\ drs' = drs
         ELSE /\ rout' = Append(rout, Printed("paths", ap))
              /\ rpc' = "dirs"
              /\ drs' = ToRoot(rargs, rcwd) \o Dirs(rargs, rcwd, ropt)
              /\ rerr' = rerr
    /\ UNCHANGED <<rcmd, ropt, rargs, rnames, rcwd, chdir, batch, ops, outcomes, moved,
                   parent_moved, n_skipped>>
    /\ UNCHANGED <<exportVars, cloneVars, setupVars, callVars>>

\* cli.py:399-418
RefreshPrint ==
    /\ rpc = "print"
    /\ rcmd = "refresh"
    /\ LET ap == ToRoot(rargs, rcwd) \o AllPaths(rargs, rcwd, ropt) IN
         IF PrintPathsRaises(ap, ropt)
         THEN rpc' = "failed" /\ rerr' = "TypeError" /\ rout' = rout /\ drs' = drs
         ELSE IF ropt.pretend
         THEN /\ rout' = rout \o <<Printed("paths", ap), Printed("count", ap)>>
              /\ rpc' = "done"
              /\ drs' = drs
              /\ rerr' = rerr
         ELSE /\ rout' = Append(rout, Printed("paths", ap))
              /\ rpc' = "dirs"
              /\ drs' = ToRoot(rargs, rcwd) \o Dirs(rargs, rcwd, ropt)
              /\ rerr' = rerr
    /\ UNCHANGED <<rcmd, ropt, rargs, rnames, rcwd, chdir, batch, ops, outcomes, moved,
                   parent_moved, n_skipped>>
    /\ UNCHANGED <<exportVars, cloneVars, setupVars, callVars>>

\* cli.py:420-423: r.refresh() for one r of drs
RefreshDir(i) ==
    /\ rpc = "dirs"
    /\ MayRun(i, "refresh", Len(drs), ropt.debug)
    /\ ops' = ops \cup {Op("refresh", i, drs[i], FALSE)}
    /\ UNCHANGED <<rpc, rcmd, ropt, rargs, rnames, rcwd, chdir, drs, batch, outcomes, moved,
                   parent_moved, rout, rerr, n_skipped>>
    /\ UNCHANGED <<exportVars, cloneVars, setupVars, callVars>>

\* the batch of cli.py:420-423 taken as complete without waiting for it
RefreshDirsDoneNoWait ==
    /\ rpc = "dirs"
    /\ rpc' = "update"
    /\ UNCHANGED <<rcmd, ropt, rargs, rnames, rcwd, chdir, drs, batch, ops, outcomes, moved,
                   parent_moved, rout, rerr, n_skipped>>
    /\ UNCHANGED <<exportVars, cloneVars, setupVars, callVars>>

\* cli.py:421-426: the batch has completed
RefreshDirsDone ==
    /\ rpc = "dirs"
    /\ Pending("refresh", Len(drs)) = {}
    /\ rpc' = "update"
    /\ UNCHANGED <<rcmd, ropt, rargs, rnames, rcwd, chdir, drs, batch, ops, outcomes, moved,
                   parent_moved, rout, rerr, n_skipped>>
    /\ UNCHANGED <<exportVars, cloneVars, setupVars, callVars>>

\* the update loop with FileNotFoundError not caught apart from OSError
RefreshUpdateCacheNoNotFound(res) ==
    /\ rpc = "update"
    /\ Len(outcomes) < Len(drs)
    /\ LET i == Len(outcomes) + 1 IN
         /\ ops' = ops \cup {Op("update_cache", i, drs[i], FALSE)}
         /\ outcomes' = Append(outcomes, res)
         /\ parent_moved' = parent_moved
         /\ moved' = IF res = "moved" THEN Append(moved, drs[i]) ELSE moved
         /\ rout' = IF res = "ENOTEMPTY" THEN Append(rout, Printed("log.error", <<drs[i]>>))
                    ELSE rout
         /\ IF res \in {"OSError", "FileNotFoundError"}
            THEN rpc' = "failed" /\ rerr' = "OSError"
            ELSE rpc' = rpc /\ rerr' = rerr
    /\ UNCHANGED <<rcmd, ropt, rargs, rnames, rcwd, chdir, drs, batch, n_skipped>>
    /\ UNCHANGED <<exportVars, cloneVars, setupVars, callVars>>

\* cli.py:427-443: one turn of the loop over drs
RefreshUpdateCache(res) ==
    /\ rpc = "update"
    /\ Len(outcomes) < Len(drs)
    /\ LET i == Len(outcomes) + 1 IN
         /\ ops' = ops \cup {Op("update_cache", i, drs[i], FALSE)}
         /\ outcomes' = Append(outcomes, res)
         /\ parent_moved' = IF res = "FileNotFoundError"
                            THEN Append(parent_moved, drs[i]) ELSE parent_moved
         /\ moved' = IF res = "moved" THEN Append(moved, drs[i]) ELSE moved
         /\ rout' = IF res = "ENOTEMPTY" THEN Append(rout, Printed("log.error", <<drs[i]>>))
                    ELSE rout
         /\ IF res = "OSError"
            THEN rpc' = "failed" /\ rerr' = "OSError"
            ELSE rpc' = rpc /\ rerr' = rerr
    /\ UNCHANGED <<rcmd, ropt, rargs, rnames, rcwd, chdir, drs, batch, n_skipped>>
    /\ UNCHANGED <<exportVars, cloneVars, setupVars, callVars>>

\* cli.py:445-453: the tables, and the change of directory
RefreshMoved ==
    /\ rpc = "update"
    /\ Len(outcomes) = Len(drs)
    /\ chdir' = (chdir \/ \E i \in DOMAIN moved : moved[i] = rcwd)
    /\ IF parent_moved # <<>> /\ PrintPathsRaises(parent_moved, ropt)
       THEN /\ rpc' = "failed"
            /\ rerr' = "TypeError"
            /\ batch' = batch
            /\ rout' = rout \o (IF moved # <<>> THEN <<Printed("Folders moved", moved)>>
                                ELSE <<>>)
       ELSE /\ rpc' = "files"
            /\ rerr' = rerr
            /\ batch' = NotDirs(rargs, rcwd, ropt)
            /\ rout' = rout
                 \o (IF moved # <<>> THEN <<Printed("Folders moved", moved)>> ELSE <<>>)
                 \o (IF parent_moved # <<>> THEN <<Printed("Parent moved", parent_moved)>>
                     ELSE <<>>)
    /\ UNCHANGED <<rcmd, ropt, rargs, rnames, rcwd, drs, ops, outcomes, moved, parent_moved,
                   n_skipped>>
    /\ UNCHANGED <<exportVars, cloneVars, setupVars, callVars>>

\* cli.py:455-465: path.remote.refresh(update_cache=True, update_data=fetch,
\* size_limit_mb=limit) for one path of _not_dirs
RefreshFile(j) ==
    /\ rpc = "files"
    /\ MayRun(j, "refresh_file", Len(batch), ropt.debug)
    /\ ops' = ops \cup {Op("refresh_file", j, batch[j], ropt.fetch)}
    /\ UNCHANGED <<rpc, rcmd, ropt, rargs, rnames, rcwd, chdir, drs, batch, outcomes, moved,
                   parent_moved, rout, rerr, n_skipped>>
    /\ UNCHANGED <<exportVars, cloneVars, setupVars, callVars>>

\* cli.py:455-465: the batch has completed and refresh returns
RefreshReturn ==
    /\ rpc = "files"
    /\ Pending("refresh_file", Len(batch)) = {}
    /\ rpc' = "done"
    /\ UNCHANGED <<rcmd, ropt, rargs, rnames, rcwd, chdir, drs, batch, ops, outcomes, moved,
                   parent_moved, rout, rerr, n_skipped>>
    /\ UNCHANGED <<exportVars, cloneVars, setupVars, callVars>>

----------------------------------------------------------------------------
(* fetch *)

\* cli.py:467-468
FetchBegin(o, args, cwd) ==
    /\ Begin("fetch", o, args, <<>>, cwd)
    /\ rpc' = "fetch_print"

\* cli.py:468-471
FetchPrint ==
    /\ rpc = "fetch_print"
    /\ LET paths == NotDirs(rargs, rcwd, ropt) IN
         IF PrintPathsRaises(paths, ropt)
         THEN rpc' = "failed" /\ rerr' = "TypeError" /\ rout' = rout /\ batch' = batch
         ELSE /\ rout' = Append(rout, Printed("paths", paths))
              /\ rerr' = rerr
              /\ IF ropt.pretend
                 THEN rpc' = "done" /\ batch' = batch
                 ELSE rpc' = "fetching" /\ batch' = paths
    /\ UNCHANGED <<rcmd, ropt, rargs, rnames, rcwd, chdir, drs, ops, outcomes, moved,
                   parent_moved, n_skipped>>
    /\ UNCHANGED <<exportVars, cloneVars, setupVars, callVars>>

\* cli.py:475-476: path.cache.fetch(size_limit_mb=limit) for one path
FetchFile(j) ==
    /\ rpc = "fetching"
    /\ MayRun(j, "fetch", Len(batch), FALSE)
    /\ ops' = ops \cup {Op("fetch", j, batch[j], TRUE)}
    /\ UNCHANGED <<rpc, rcmd, ropt, rargs, rnames, rcwd, chdir, drs, batch, outcomes, moved,
                   parent_moved, rout, rerr, n_skipped>>
    /\ UNCHANGED <<exportVars, cloneVars, setupVars, callVars>>

\* cli.py:475-476: the batch has completed
FetchReturn ==
    /\ rpc = "fetching"
    /\ Pending("fetch", Len(batch)) = {}
    /\ rpc' = "done"
    /\ UNCHANGED <<rcmd, ropt, rargs, rnames, rcwd, chdir, drs, batch, ops, outcomes, moved,
                   parent_moved, rout, rerr, n_skipped>>
    /\ UNCHANGED <<exportVars, cloneVars, setupVars, callVars>>

----------------------------------------------------------------------------
(* find *)

\* cli.py:662-666
FindBegin(o, names, cwd) ==
    /\ Begin("find", o, <<>>, names, cwd)
    /\ rpc' = "filter"

\* cli.py:667-690
FindFilter ==
    /\ rpc = "filter"
    /\ IF Flatten([i \in DOMAIN rnames |-> RGlob(rcwd, rnames[i])]) = <<>>
       THEN rpc' = "done" /\ batch' = batch /\ n_skipped' = n_skipped
       ELSE /\ rpc' = "found"
            /\ batch' = FindPaths(rcwd, rnames, ropt)
            /\ n_skipped' = NSkipped(rcwd, rnames, ropt)
    /\ UNCHANGED <<rcmd, ropt, rargs, rnames, rcwd, chdir, drs, ops, outcomes, moved,
                   parent_moved, rout, rerr>>
    /\ UNCHANGED <<exportVars, cloneVars, setupVars, callVars>>

\* cli.py:693-694, 715-716: the listing and the count of skipped links;
\* reading n_skipped when it was never bound raises NameError
FindListing ==
    IF PrintPathsRaises(batch, ropt)
    THEN [out |-> <<>>, err |-> "TypeError"]
    ELSE IF n_skipped = Unbound
    THEN [out |-> <<Printed("paths", batch)>>, err |-> "NameError"]
    ELSE [out |-> <<Printed("paths", batch),
                    [what |-> "count", rows |-> <<>>, n |-> n_skipped]>>,
          err |-> "none"]

\* cli.py:692-716: what find does with the paths it kept
FindAct ==
    /\ rpc = "found"
    /\ IF ropt.pretend
       THEN /\ rout' = rout \o FindListing.out
            /\ rerr' = FindListing.err
            /\ rpc' = IF FindListing.err = "none" THEN "done" ELSE "failed"
       ELSE LET shown == IF ropt.verbose THEN <<Printed("meta", batch)>> ELSE <<>> IN
            IF ropt.fetch \/ ropt.refresh
            THEN rout' = rout \o shown /\ rerr' = rerr /\ rpc' = "dispatch"
            ELSE /\ rout' = rout \o shown \o FindListing.out
                 /\ rerr' = FindListing.err
                 /\ rpc' = IF FindListing.err = "none" THEN "done" ELSE "failed"
    /\ UNCHANGED <<rcmd, ropt, rargs, rnames, rcwd, chdir, drs, batch, ops, outcomes, moved,
                   parent_moved, n_skipped>>
    /\ UNCHANGED <<exportVars, cloneVars, setupVars, callVars>>

\* cli.py:706-712: one remote refresh, or else one fetch, of a kept path
FindOp(j) ==
    /\ rpc = "dispatch"
    /\ LET kind == IF ropt.refresh THEN "refresh_file" ELSE "fetch" IN
         /\ MayRun(j, kind, Len(batch), FALSE)
         /\ ops' = ops \cup {Op(kind, j, batch[j], IF ropt.refresh THEN ropt.fetch ELSE TRUE)}
    /\ UNCHANGED <<rpc, rcmd, ropt, rargs, rnames, rcwd, chdir, drs, batch, outcomes, moved,
                   parent_moved, rout, rerr, n_skipped>>
    /\ UNCHANGED <<exportVars, cloneVars, setupVars, callVars>>

\* cli.py:706-712: the batch has completed
FindReturn ==
    /\ rpc = "dispatch"
    /\ Pending(IF ropt.refresh THEN "refresh_file" ELSE "fetch", Len(batch)) = {}
    /\ rpc' = "done"
    /\ UNCHANGED <<rcmd, ropt, rargs, rnames, rcwd, chdir, drs, batch, ops, outcomes, moved,
                   parent_moved, rout, rerr, n_skipped>>
    /\ UNCHANGED <<exportVars, cloneVars, setupVars, callVars>>

\* cli.py:973-982: the process has ended
RefreshExit ==
    /\ rpc \in {"done", "failed"}
    /\ rpc' = "idle"
    /\ rcmd' = "none"
    /\ ropt' = NoFlags
    /\ rargs' = <<>>
    /\ rnames' = <<>>
    /\ rcwd' = 3
    /\ chdir' = FALSE
    /\ drs' = <<>>
    /\ batch' = <<>>
    /\ ops' = {}
    /\ outcomes' = <<>>
    /\ moved' = <<>>
    /\ parent_moved' = <<>>
    /\ rout' = <<>>
    /\ rerr' = "none"
    /\ n_skipped' = Unbound
    /\ UNCHANGED <<exportVars, cloneVars, setupVars, callVars>>

NextRefresh ==
    \/ \E o \in RefreshOptions, i \in Invocations : RefreshBegin(o, i[1], i[2])
    \/ RefreshPrint
    \/ \E i \in DOMAIN drs : RefreshDir(i)
    \/ RefreshDirsDone
    \/ \E res \in UpdateResults : RefreshUpdateCache(res)
    \/ RefreshMoved
    \/ \E j \in DOMAIN batch : RefreshFile(j)
    \/ RefreshReturn
    \/ \E o \in FetchOptions, i \in Invocations : FetchBegin(o, i[1], i[2])
    \/ FetchPrint
    \/ \E j \in DOMAIN batch : FetchFile(j)
    \/ FetchReturn
    \/ \E o \in FindOptions, n \in NameArgs, c \in CwdDirs : FindBegin(o, n, c)
    \/ FindFilter
    \/ FindAct
    \/ \E j \in DOMAIN batch : FindOp(j)
    \/ FindReturn
    \/ RefreshExit

----------------------------------------------------------------------------
(* refresh, fetch, find: claims *)

\* the positions at which a command is issuing remote operations
Issuing == {"dirs", "update", "files", "fetching", "dispatch"}

TurnsWith(res) == {i \in DOMAIN outcomes : outcomes[i] = res}

\* C10: in refresh's loop over the directories, FileNotFoundError puts the
\* directory in parent_moved and ENOTEMPTY is logged, and neither ends the
\* command: when refresh is past the loop every directory had its turn, and
\* when it returns every non-directory was refreshed. Any other OSError ends
\* the command at that turn: no later directory is updated and no
\* non-directory is refreshed.
C10_UpdateCacheErrors ==
    (rcmd = "refresh" /\ ~ropt.pretend) =>
        /\ \A i \in TurnsWith("OSError") :
               /\ i = Len(outcomes)
               /\ rpc = "failed"
               /\ rerr = "OSError"
               /\ OpsOf("refresh_file") = {}
               /\ \A o \in OpsOf("update_cache") : o.idx <= i
        /\ rpc = "failed" =>
               \/ rerr = "TypeError"
               \/ outcomes # <<>> /\ outcomes[Len(outcomes)] = "OSError"
        /\ Len(parent_moved) = Cardinality(TurnsWith("FileNotFoundError"))
        /\ \A k \in DOMAIN parent_moved :
               \E i \in TurnsWith("FileNotFoundError") : drs[i] = parent_moved[k]
        /\ \A i \in TurnsWith("FileNotFoundError") :
               \E k \in DOMAIN parent_moved : parent_moved[k] = drs[i]
        /\ Cardinality({k \in DOMAIN rout : rout[k].what = "log.error"})
               = Cardinality(TurnsWith("ENOTEMPTY"))
        /\ rpc \in {"files", "done"} =>
               /\ Len(outcomes) = Len(drs)
               /\ {o.idx : o \in OpsOf("update_cache")} = DOMAIN drs
        /\ rpc = "done" =>
               /\ batch = NotDirs(rargs, rcwd, ropt)
               /\ {o.idx : o \in OpsOf("refresh_file")} = DOMAIN batch

\* refresh has returned after a loop in which FileNotFoundError and
\* ENOTEMPTY both occurred before the last directory, and non-directories
\* were refreshed
C10_Witness ==
    /\ rcmd = "refresh"
    /\ rpc = "done"
    /\ \E i \in TurnsWith("FileNotFoundError") : i < Len(drs)
    /\ \E i \in TurnsWith("ENOTEMPTY") : i < Len(drs)
    /\ parent_moved # <<>>
    /\ OpsOf("refresh_file") # {}

\* the items of a batch an operation of this kind has reached
Reached(kind) == {o.idx : o \in OpsOf(kind)}

\* C11: the phases of refresh do not overlap. A directory's cache update
\* is issued only when every directory's remote refresh has been made; a
\* non-directory refresh is issued only when every directory has had its
\* cache update and the change of working directory has been decided;
\* under --debug the operations of a batch are made in the order of the
\* batch.
C11_PhasesInOrder ==
    (rcmd = "refresh") =>
        /\ OpsOf("update_cache") # {} => Reached("refresh") = DOMAIN drs
        /\ OpsOf("refresh_file") # {} =>
               /\ Reached("refresh") = DOMAIN drs
               /\ Reached("update_cache") = DOMAIN drs
               /\ Len(outcomes) = Len(drs)
               /\ chdir = (\E i \in DOMAIN moved : moved[i] = rcwd)
        /\ chdir => Reached("update_cache") = DOMAIN drs
        /\ ropt.debug =>
               /\ \A i \in Reached("refresh") : 1..i \subseteq Reached("refresh")
               /\ \A j \in Reached("refresh_file") : 1..j \subseteq Reached("refresh_file")

\* a concurrent refresh of several directories is among its non-directory
\* refreshes, after a cache update that moved the working directory
C11_Witness ==
    /\ rcmd = "refresh"
    /\ ~ropt.debug
    /\ rpc = "files"
    /\ Len(drs) >= 2
    /\ chdir
    /\ OpsOf("refresh_file") # {}
    /\ Pending("refresh_file", Len(batch)) # {}

\* find has ended in a branch that prints: --pretend, or neither --fetch
\* nor --refresh
FindPrinted ==
    /\ rcmd = "find"
    /\ rpc \in {"done", "failed"}
    /\ ropt.pretend \/ ~(ropt.fetch \/ ropt.refresh)

\* C15: a find with at least one match that is not a directory, ending in
\* a branch that prints, prints the paths and then a count of skipped
\* links that is defined, whatever --limit is, 0 and negative included
\* (rows that --sort-size-desc cannot order are set aside).
C15_SkippedCountDefined ==
    (FindPrinted /\ FindCandidates(rcwd, rnames) # <<>> /\ ~ropt.sort_size_desc) =>
        /\ rpc = "done"
        /\ rerr = "none"
        /\ rout # <<>>
        /\ rout[Len(rout)].what = "count"
        /\ rout[Len(rout)].n >= 0

----------------------------------------------------------------------------
(* report size *)

\* the suffixes of sizeof_fmt (core.py:242)
Units == <<"", "K", "M", "G", "T", "P", "E", "Z">>

\* "%0.0f" of num / den: the nearest integer, a tie going to the even one
RoundHalfEven(num, den) ==
    LET q == num \div den
        r == num % den
    IN IF 2 * r > den THEN q + 1
       ELSE IF 2 * r = den THEN q + (q % 2)
       ELSE q

\* core.py:241-246: sizeof_fmt, with num the bytes divided by den so far;
\* the text is n followed by unit ("%.1f" past the last unit is in tenths)
RECURSIVE SizeofFmt(_, _, _)
SizeofFmt(bytes, den, u) ==
    IF u > Len(Units) THEN [n |-> RoundHalfEven(10 * bytes, den), unit |-> "Yi"]
    ELSE IF bytes < 1024 * den THEN [n |-> RoundHalfEven(bytes, den), unit |-> Units[u]]
    ELSE SizeofFmt(bytes, den * 1024, u + 1)

\* the text '??'
Unknown == [n |-> 0, unit |-> "??"]

\* core.py:237-251: FileSize.hr
Hr(size) == IF size >= 0 THEN SizeofFmt(size, 1, 1) ELSE Unknown

\* the counters of cli.py:812-817
ZeroCounts ==
    [outstanding |-> 0, total |-> 0, tf |-> 0, ff |-> 0, td |-> 0, uncertain |-> FALSE]

\* the loop of cli.py:819-835 with an entry of unknown size counted as a
\* file of size 0
RECURSIVE CountEntriesUnknownAsZero(_, _)
CountEntriesUnknownAsZero(entries, acc) ==
    IF entries = <<>> THEN acc
    ELSE
      LET e == Head(entries)
          s == IF e.size = NoSize THEN 0 ELSE e.size
          next ==
            IF e.kind \in {"file", "link"}
            THEN [acc EXCEPT !.tf = @ + 1,
                             !.total = @ + s,
                             !.ff = IF e.kind = "link" THEN @ + 1 ELSE @,
                             !.outstanding = IF e.kind = "link" THEN @ + s ELSE @]
            ELSE IF e.kind = "dir" THEN [acc EXCEPT !.td = @ + 1]
            ELSE acc
      IN CountEntriesUnknownAsZero(Tail(entries), next)

\* cli.py:819-835: the loop over path_meta; "link" is a broken symlink,
\* for which p.is_file() is false
RECURSIVE CountEntries(_, _)
CountEntries(entries, acc) ==
    IF entries = <<>> THEN acc
    ELSE
      LET e == Head(entries)
          next ==
            IF e.kind \in {"file", "link"}
            THEN IF e.size = NoSize
                 THEN [acc EXCEPT !.uncertain = TRUE]
                 ELSE [acc EXCEPT !.tf = @ + 1,
                                  !.total = IF e.size # 0 THEN @ + e.size ELSE @,
                                  !.ff = IF e.kind = "link" THEN @ + 1 ELSE @,
                                  !.outstanding = IF e.kind = "link" /\ e.size # 0
                                                  THEN @ + e.size ELSE @]
            ELSE IF e.kind = "dir" THEN [acc EXCEPT !.td = @ + 1]
            ELSE acc
      IN CountEntries(Tail(entries), next)

\* cli.py:837-845: the row appended to data for the directory named name
DataRow(name, entries) ==
    LET c == CountEntries(entries, ZeroCounts)
    IN [name |-> name,
        local |-> c.total - c.outstanding,
        outstanding |-> c.outstanding,
        total |-> c.total,
        uncertain |-> c.uncertain,
        lf |-> c.tf - c.ff,
        ff |-> c.ff,
        tf |-> c.tf,
        td |-> c.td]

\* cli.py:807-845: data; what is not a directory is passed over
RECURSIVE SizeData(_, _)
SizeData(ds, i) ==
    IF i > Len(ds) THEN <<>>
    ELSE (IF ds[i].is_dir THEN <<DataRow(i, ds[i].entries)>> ELSE <<>>)
         \o SizeData(ds, i + 1)

\* cli.py:849: the key (r[4], -r[3]) of a is less than that of b; r[4] is
\* uncertain, r[3] is total, and False < True
KeyLess(a, b) ==
    \/ ~a.uncertain /\ b.uncertain
    \/ a.uncertain = b.uncertain /\ -a.total < -b.total

\* one row put in its place among sorted rows, after those whose key is
\* not greater
RECURSIVE Insert(_, _)
Insert(r, rows) ==
    IF rows = <<>> THEN <<r>>
    ELSE IF KeyLess(r, Head(rows)) THEN <<r>> \o rows
    ELSE <<Head(rows)>> \o Insert(r, Tail(rows))

\* sorted(data, key=...), which keeps the order of rows with equal keys
RECURSIVE Sorted(_)
Sorted(rows) ==
    IF rows = <<>> THEN <<>>
    ELSE Insert(rows[Len(rows)], Sorted(SubSeq(rows, 1, Len(rows) - 1)))

\* cli.py:847-848: one row of the table
Formatted(r) ==
    [name |-> r.name,
     local |-> Hr(r.local),
     outstanding |-> Hr(r.outstanding),
     total |-> IF ~r.uncertain THEN Hr(r.total) ELSE Unknown,
     lf |-> r.lf,
     ff |-> r.ff,
     tf |-> r.tf,
     td |-> r.td]

\* cli.py:799-854: the rows of the table, without the header
Size(ds) ==
    LET rows == Sorted(SizeData(ds, 1))
    IN [i \in DOMAIN rows |-> Formatted(rows[i])]

\* what a directory may hold: files of 0, 100, 200 and 1536 bytes and of
\* unknown size, links of 50 bytes and of unknown size, a directory
Entries ==
    {[kind |-> "file", size |-> s] : s \in {NoSize, 0, 100, 200, 1536}}
    \cup {[kind |-> "link", size |-> s] : s \in {NoSize, 50}}
    \cup {[kind |-> "dir", size |-> NoSize]}

\* the most that a directory given alone holds
MaxEntries == 3

\* the sequences of at most n entries
RECURSIVE UpTo(_)
UpTo(n) ==
    IF n = 0 THEN {<<>>}
    ELSE UpTo(n - 1) \cup {Append(es, e) : es \in {x \in UpTo(n - 1) : Len(x) = n - 1},
                                            e \in Entries}

\* a <directory> argument that is not a directory
NotADirectory == [is_dir |-> FALSE, entries |-> <<>>]

Directories(n) == {[is_dir |-> TRUE, entries |-> es] : es \in UpTo(n)}

\* the <directory>... arguments: one, or two that hold less
SizeCalls ==
    {[fn |-> "size", arg |-> <<d>>] : d \in Directories(MaxEntries) \cup {NotADirectory}}
    \cup {[fn |-> "size", arg |-> <<d, e>>] :
             d \in Directories(MaxEntries - 2) \cup {NotADirectory},
             e \in Directories(MaxEntries - 2) \cup {NotADirectory}}

\* cli.py:799-856: Report.size
SizeApply ==
    /\ call.fn = "size"
    /\ ~returned
    /\ returned' = TRUE
    /\ ret' = Size(call.arg)
    /\ UNCHANGED call
    /\ UNCHANGED <<exportVars, cloneVars, setupVars, refreshVars>>

----------------------------------------------------------------------------
(* python_identifier *)

\* a string is a sequence of characters; "TAB" is '\t', "ELLIPSIS" is
\* U+2026 and "X83" is '\x83'
Whitespace == {" ", "TAB"}

Digits == {"0", "1", "2", "3", "4", "5", "6", "7", "8", "9"}

\* str.strip(): leading and trailing whitespace removed
RECURSIVE LStrip(_)
LStrip(s) == IF s # <<>> /\ Head(s) \in Whitespace THEN LStrip(Tail(s)) ELSE s

RECURSIVE RStrip(_)
RStrip(s) ==
    IF s # <<>> /\ s[Len(s)] \in Whitespace THEN RStrip(SubSeq(s, 1, Len(s) - 1)) ELSE s

Strip(s) == RStrip(LStrip(s))

\* str.replace(old, new) for a one-character old
Replace(s, old, new) ==
    Flatten([i \in DOMAIN s |-> IF s[i] = old THEN new ELSE <<s[i]>>])

\* str.lower()
Lower(s) ==
    [i \in DOMAIN s |-> CASE s[i] = "A" -> "a" [] s[i] = "B" -> "b" [] OTHER -> s[i]]

\* core.py:56-71: the chain of replacements, in its order
Replaced(s) ==
    LET s1 == Replace(s, "(", <<>>)
        s2 == Replace(s1, ")", <<>>)
        s3 == Replace(s2, " ", <<"_">>)
        s4 == Replace(s3, "+", <<>>)
        s5 == Replace(s4, "ELLIPSIS", <<>>)
        s6 == Replace(s5, ".", <<"_">>)
        s7 == Replace(s6, ",", <<"_">>)
        s8 == Replace(s7, "/", <<"_">>)
        s9 == Replace(s8, "?", <<"_">>)
        s10 == Replace(s9, "#", <<"n", "u", "m", "b", "e", "r">>)
        s11 == Replace(s10, "-", <<"_">>)
        s12 == Replace(s11, ":", <<"_">>)
        s13 == Replace(s12, "X83", <<>>)
    IN Lower(s13)

\* core.py:54-75: the identifier, or IndexError from ident[0] when nothing
\* is left
python_identifier(string) ==
    LET ident == Replaced(Strip(string))
    IN IF ident = <<>> THEN [raised |-> "IndexError", value |-> <<>>]
       ELSE IF Head(ident) \in Digits
       THEN [raised |-> "none", value |-> <<"n", "_">> \o ident]
       ELSE [raised |-> "none", value |-> ident]

\* the characters of the strings given: two that are deleted, three that
\* are replaced, a tab, a digit, a letter in both cases
Alphabet == {"(", "+", " ", ".", "#", "TAB", "1", "A", "a"}

\* the longest string given
MaxLen == 3

RECURSIVE Strings(_)
Strings(n) ==
    IF n = 0 THEN {<<>>}
    ELSE Strings(n - 1) \cup {Append(s, c) : s \in {x \in Strings(n - 1) : Len(x) = n - 1},
                                               c \in Alphabet}

IdentifierCalls == {[fn |-> "python_identifier", arg |-> s] : s \in Strings(MaxLen)}

\* core.py:54-75
IdentifierApply ==
    /\ call.fn = "python_identifier"
    /\ ~returned
    /\ returned' = TRUE
    /\ ret' = python_identifier(call.arg)
    /\ UNCHANGED call
    /\ UNCHANGED <<exportVars, cloneVars, setupVars, refreshVars>>

----------------------------------------------------------------------------
(* OrcidId.checksumValid *)

\* int(c) of a one-character string does not raise ValueError
IsDigit(c) == c \in Digits

\* int(c) of a digit
IntOf(c) ==
    CASE c = "0" -> 0 [] c = "1" -> 1 [] c = "2" -> 2 [] c = "3" -> 3 [] c = "4" -> 4
      [] c = "5" -> 5 [] c = "6" -> 6 [] c = "7" -> 7 [] c = "8" -> 8 [] c = "9" -> 9

\* core.py:106-108: total = (total + int(digit_string)) * 2 over digits
RECURSIVE OrcidTotal(_, _)
OrcidTotal(digits, total) ==
    IF digits = <<>> THEN total
    ELSE OrcidTotal(Tail(digits), (total + IntOf(Head(digits))) * 2)

\* the check value taken as 11 less the remainder
OrcidResultEleven(total) == (11 - (total % 11)) % 11

\* core.py:110-111
OrcidResult(total) == (12 - (total % 11)) % 11

\* core.py:103-114: the value returned, or MalformedOrcidError raised on
\* ValueError (nothing to unpack, or int() of a character that is no digit)
checksumValid(suffix) ==
    LET s == Replace(suffix, "-", <<>>)
        Malformed == [raised |-> "MalformedOrcidError", value |-> FALSE]
    IN IF s = <<>> THEN Malformed
       ELSE LET digits == SubSeq(s, 1, Len(s) - 1)
                check_string == s[Len(s)]
            IN IF check_string # "X" /\ ~IsDigit(check_string) THEN Malformed
               ELSE IF \E i \in DOMAIN digits : ~IsDigit(digits[i]) THEN Malformed
               ELSE LET check == IF check_string = "X" THEN 10 ELSE IntOf(check_string)
                    IN [raised |-> "none",
                        value |-> OrcidResult(OrcidTotal(digits, 0)) = check]

\* the characters of the suffixes given: digits, the check character X,
\* the hyphen, a letter
SuffixAlphabet == {"0", "1", "7", "X", "-", "a"}

\* the longest suffix given
MaxSuffix == 4

RECURSIVE Suffixes(_)
Suffixes(n) ==
    IF n = 0 THEN {<<>>}
    ELSE Suffixes(n - 1)
         \cup {Append(s, c) : s \in {x \in Suffixes(n - 1) : Len(x) = n - 1},
                              c \in SuffixAlphabet}

ChecksumCalls == {[fn |-> "checksumValid", arg |-> s] : s \in Suffixes(MaxSuffix)}

\* core.py:97-114
ChecksumApply ==
    /\ call.fn = "checksumValid"
    /\ ~returned
    /\ returned' = TRUE
    /\ ret' = checksumValid(call.arg)
    /\ UNCHANGED call
    /\ UNCHANGED <<exportVars, cloneVars, setupVars, refreshVars>>

----------------------------------------------------------------------------
(* _print_paths *)

\* a cell of the size column that is text: '/', '??' or '_'
TextCell(t) == [n |-> 0, unit |-> t]

\* cli.py:145-147: the second element of the pair sorted for a path; e.size
\* is p.cache.meta.size, and a size of None and a size of 0 are both falsy
SizeOrText(e) ==
    IF e.is_dir THEN [text |-> "/", size |-> NoSize]
    ELSE IF e.has_meta
    THEN IF e.size # NoSize /\ e.size # 0
         THEN [text |-> "", size |-> e.size]
         ELSE [text |-> "??", size |-> NoSize]
    ELSE [text |-> "_", size |-> NoSize]

\* the pair [p, s] of cli.py:145
Pair(e) == [path |-> e.path, s |-> SizeOrText(e), exists |-> e.exists]

\* -ps[-1] raises TypeError when ps[-1] is a str
KeyRaises(pair) == pair.s.text # ""

\* cli.py:138-141: the key of a is less than the key of b; without
\* --sort-size-desc the pairs themselves are compared, path first
PairLess(a, b, sort_size_desc) ==
    IF sort_size_desc THEN -a.s.size < -b.s.size
    ELSE a.path < b.path

\* one pair put in its place among sorted pairs, after those whose key is
\* not greater
RECURSIVE InsertPair(_, _, _)
InsertPair(r, rows, sort_size_desc) ==
    IF rows = <<>> THEN <<r>>
    ELSE IF PairLess(r, Head(rows), sort_size_desc) THEN <<r>> \o rows
    ELSE <<Head(rows)>> \o InsertPair(r, Tail(rows), sort_size_desc)

\* sorted(pairs, key=key)
RECURSIVE SortedPairs(_, _)
SortedPairs(rows, sort_size_desc) ==
    IF rows = <<>> THEN <<>>
    ELSE InsertPair(rows[Len(rows)],
                    SortedPairs(SubSeq(rows, 1, Len(rows) - 1), sort_size_desc),
                    sort_size_desc)

\* cli.py:143-144: the row printed for a pair; a FileSize is shown by hr
PathRow(pair) ==
    [path |-> pair.path,
     size |-> IF pair.s.text = "" THEN Hr(pair.s.size) ELSE TextCell(pair.s.text),
     exists |-> IF pair.exists THEN "x" ELSE ""]

\* cli.py:137-150: the rows of the table without the header, or TypeError
\* from the key
PrintPaths(paths, sort_size_desc) ==
    LET pairs == [i \in DOMAIN paths |-> Pair(paths[i])]
    IN IF sort_size_desc /\ \E i \in DOMAIN pairs : KeyRaises(pairs[i])
       THEN [raised |-> "TypeError", rows |-> <<>>]
       ELSE LET sorted == SortedPairs(pairs, sort_size_desc)
            IN [raised |-> "none", rows |-> [i \in DOMAIN sorted |-> PathRow(sorted[i])]]

\* what a listed path may be: a directory, a file of cached size 0, 100 or
\* 2048, a file of unknown size, a file without cached metadata
PathKinds ==
    {[is_dir |-> TRUE, has_meta |-> TRUE, size |-> NoSize]}
    \cup {[is_dir |-> FALSE, has_meta |-> TRUE, size |-> s] : s \in {NoSize, 0, 100, 2048}}
    \cup {[is_dir |-> FALSE, has_meta |-> FALSE, size |-> NoSize]}

\* the most paths listed
MaxPaths == 3

RECURSIVE KindSeqs(_)
KindSeqs(n) ==
    IF n = 0 THEN {<<>>}
    ELSE KindSeqs(n - 1)
         \cup {Append(s, k) : s \in {x \in KindSeqs(n - 1) : Len(x) = n - 1},
                              k \in PathKinds}

\* the paths listed: the kinds in some order, named in the order given or
\* in the reverse of it
Listed(ks, reversed) ==
    [i \in DOMAIN ks |->
        [path |-> IF reversed THEN Len(ks) - i + 1 ELSE i,
         is_dir |-> ks[i].is_dir,
         has_meta |-> ks[i].has_meta,
         size |-> ks[i].size,
         exists |-> ks[i].is_dir \/ ks[i].size # NoSize]]

PrintPathsCalls ==
    {[fn |-> "_print_paths", arg |-> [paths |-> Listed(ks, r), sort_size_desc |-> s]] :
        ks \in KindSeqs(MaxPaths), r \in BOOLEAN, s \in BOOLEAN}

\* cli.py:137-150
PrintPathsApply ==
    /\ call.fn = "_print_paths"
    /\ ~returned
    /\ returned' = TRUE
    /\ ret' = PrintPaths(call.arg.paths, call.arg.sort_size_desc)
    /\ UNCHANGED call
    /\ UNCHANGED <<exportVars, cloneVars, setupVars, refreshVars>>

----------------------------------------------------------------------------
(* Functions called on their own *)

NoCall == [fn |-> "none", arg |-> <<>>]

\* the depth limits given: none, 0, 1, 2
MaxLevel == 2

Levels == {NoLevel} \cup 0..MaxLevel

\* the mode flags _build_paths reads: none, --empty, --only-no-file-id
BuildModes ==
    {[level |-> l, empty |-> f[1], only_no_file_id |-> f[2], only_meta |-> FALSE] :
        l \in Levels, f \in {<<FALSE, FALSE>>, <<TRUE, FALSE>>, <<FALSE, TRUE>>}}

\* the given paths: one path, or two among the directories, which
\* includes a directory with one of its ancestors and a directory twice
Roots ==
    {<<p>> : p \in Nodes \ {1}}
    \cup {<<p, q>> : p \in {2, 3, 5, 7, 9}, q \in {2, 3, 5, 7, 9}}

BuildPathsCalls ==
    {[fn |-> "_build_paths", arg |-> [roots |-> r, o |-> o]] : r \in Roots, o \in BuildModes}

\* cached sizes of a match: unknown, 0, half a megabyte, one, two
CachedSizes == {NoSize, 0, MB \div 2, MB, 2 * MB}

\* actual sizes of a local copy
ActualSizes == {0, MB \div 2, 2 * MB}

\* the size limits in force, in megabytes
MaxLimit == 2

\* one match under find's filter; the filter runs when the limit is
\* neither None nor 0 (cli.py:679)
FilterCalls ==
    {[fn |-> "find_filter",
      arg |-> [cached |-> c, exists |-> e, actual |-> a,
               o |-> [NoFlags EXCEPT !.limit = l, !.exists = x]]] :
        c \in CachedSizes, e \in BOOLEAN, a \in ActualSizes, l \in 1..MaxLimit,
        x \in BOOLEAN}

InitCall ==
    /\ returned = FALSE
    /\ ret = <<>>
    /\ \/ call \in BuildPathsCalls
       \/ call \in FilterCalls
       \/ call \in SizeCalls
       \/ call \in IdentifierCalls
       \/ call \in ChecksumCalls
       \/ call \in PrintPathsCalls

\* cli.py:281-316: list(self._build_paths(paths))
BuildPathsApply ==
    /\ call.fn = "_build_paths"
    /\ ~returned
    /\ returned' = TRUE
    /\ ret' = BuildPaths(call.arg.roots, call.arg.o)
    /\ UNCHANGED call
    /\ UNCHANGED <<exportVars, cloneVars, setupVars, refreshVars>>

\* cli.py:681-688: the filter's test on one match
FilterApply ==
    /\ call.fn = "find_filter"
    /\ ~returned
    /\ returned' = TRUE
    /\ ret' = [keep |-> Keeps(call.arg.cached, call.arg.exists, call.arg.actual, call.arg.o),
               logged |-> LogsTruncated(call.arg.cached, call.arg.exists, call.arg.actual,
                                        call.arg.o)]
    /\ UNCHANGED call
    /\ UNCHANGED <<exportVars, cloneVars, setupVars, refreshVars>>

NextCall ==
    \/ BuildPathsApply
    \/ FilterApply
    \/ SizeApply
    \/ IdentifierApply
    \/ ChecksumApply
    \/ PrintPathsApply

----------------------------------------------------------------------------
(* Functions called on their own: claims *)

\* a _build_paths call has returned
Built == call.fn = "_build_paths" /\ returned

\* no path occurs twice in a sequence
NoDuplicates(ps) == \A i, j \in DOMAIN ps : ps[i] = ps[j] => i = j

\* the given paths and everything below them
Under(roots) ==
    Range(roots) \cup UNION {Range(RChildren(roots[i])) : i \in DOMAIN roots}

\* a path that is not a given path comes after the directory it is in
ParentFirst(ps, roots) ==
    \A i \in DOMAIN ps :
        ps[i] \in Range(roots) \/ \E j \in 1..(i - 1) : ps[j] = Parent[ps[i]]

\* C12: with no depth limit and no mode flag, _build_paths yields every
\* path under the given paths exactly once and depth first, also when one
\* given path is above another.
C12_ExactlyOnce ==
    (Built /\ call.arg.o.level = NoLevel /\ ~call.arg.o.empty
       /\ ~call.arg.o.only_no_file_id /\ NoDuplicates(call.arg.roots)) =>
        /\ Range(ret) = Under(call.arg.roots)
        /\ ParentFirst(ret, call.arg.roots)
        /\ NoDuplicates(ret)

\* C13: with --empty, for every depth limit and for none, every path
\* _build_paths yields is a directory without children.
C13_EmptyOnly ==
    (Built /\ call.arg.o.empty) =>
        \A i \in DOMAIN ret : IsDir(ret[i]) /\ Children(ret[i]) = <<>>

\* how many levels p is below r; more than there are paths when it is not
\* below r
RECURSIVE LevelsBelow(_, _)
LevelsBelow(p, r) ==
    IF p = r THEN 0
    ELSE IF Parent[p] = 0 THEN Len(Parent)
    ELSE 1 + LevelsBelow(Parent[p], r)

\* the paths at most n levels below one of the given paths
Within(roots, n) ==
    {p \in Nodes : \E i \in DOMAIN roots : LevelsBelow(p, roots[i]) <= n}

\* a _build_paths call with a depth limit and no mode flag has returned
BuiltToLevel ==
    /\ Built
    /\ call.arg.o.level # NoLevel
    /\ ~call.arg.o.empty
    /\ ~call.arg.o.only_no_file_id

\* C20 as stated: with depth limit L and no mode flag, _build_paths yields
\* no path more than L levels below a given path; with L = 0 only the
\* given paths.
C20_Original == BuiltToLevel => Range(ret) \subseteq Within(call.arg.roots, call.arg.o.level)

\* C20: with depth limit L and no mode flag, _build_paths yields the
\* paths at most L + 1 levels below a given path, and no other; with
\* L = 0 the given paths and what is directly in them.
C20_OneLevelMore ==
    BuiltToLevel => Range(ret) = Within(call.arg.roots, call.arg.o.level + 1)

\* a call with depth limit 0 has yielded what is directly in the given
\* path and not what lies deeper
C20_Witness ==
    /\ BuiltToLevel
    /\ call.arg.o.level = 0
    /\ \E i \in DOMAIN ret : LevelsBelow(ret[i], call.arg.roots[1]) = 1
    /\ \E p \in Nodes : LevelsBelow(p, call.arg.roots[1]) = 2 /\ p \notin Range(ret)

\* the filter's test has been made on a match, --exists not given
Filtered == call.fn = "find_filter" /\ returned /\ ~call.arg.o.exists

\* the cached size is known and below the limit
WithinLimit(a) == a.cached # NoSize /\ a.cached < a.o.limit * MB

Sized == call.fn = "size" /\ returned

\* the entries of a directory that are files or broken links of known size
KnownFiles(es) ==
    {i \in DOMAIN es : es[i].kind \in {"file", "link"} /\ es[i].size # NoSize}

\* those of them that are broken links
KnownLinks(es) == {i \in KnownFiles(es) : es[i].kind = "link"}

\* the bytes of the entries at these places
RECURSIVE Bytes(_, _)
Bytes(es, I) ==
    IF I = {} THEN 0
    ELSE LET i == CHOOSE x \in I : TRUE IN es[i].size + Bytes(es, I \ {i})

\* the entries of the directory a row is for
EntriesOf(r) == call.arg[r.name].entries

\* C16: in a row of report size, over the entries of known size, the total
\* is the bytes of the files and broken links, the outstanding bytes and
\* count are those of the broken links, local is total less outstanding
\* and not negative, and fetched count plus outstanding count is the total
\* count; an entry of unknown size adds to none of them and turns the
\* total into '??'. There is one row for each argument that is a directory.
C16_SizeRow ==
    Sized =>
        /\ {ret[k].name : k \in DOMAIN ret} = {i \in DOMAIN call.arg : call.arg[i].is_dir}
        /\ \A k \in DOMAIN ret :
             LET r == ret[k]
                 es == EntriesOf(r)
                 total == Bytes(es, KnownFiles(es))
                 outstanding == Bytes(es, KnownLinks(es))
             IN /\ r.tf = Cardinality(KnownFiles(es))
                /\ r.ff = Cardinality(KnownLinks(es))
                /\ r.lf + r.ff = r.tf
                /\ r.lf >= 0
                /\ r.outstanding = Hr(outstanding)
                /\ total - outstanding >= 0
                /\ r.local = Hr(total - outstanding)
                /\ r.total = IF \E i \in DOMAIN es : es[i].kind \in {"file", "link"}
                                                     /\ es[i].size = NoSize
                             THEN Unknown
                             ELSE Hr(total)

\* the row for a directory of two files of 100 and 200 bytes and a broken
\* link of 50 bytes: local 300, outstanding 50, total 350, counts 2, 1, 3
C16_Witness ==
    /\ Sized
    /\ Len(ret) = 1
    /\ ret[1].local = [n |-> 300, unit |-> ""]
    /\ ret[1].outstanding = [n |-> 50, unit |-> ""]
    /\ ret[1].total = [n |-> 350, unit |-> ""]
    /\ ret[1].lf = 2
    /\ ret[1].ff = 1
    /\ ret[1].tf = 3

\* the total bytes of a row
TotalOf(r) == Bytes(EntriesOf(r), KnownFiles(EntriesOf(r)))

\* C17: the rows are ordered by fetched count ascending and, for equal
\* fetched counts, by total bytes descending.
C17_ByFetchedThenTotal ==
    Sized =>
        \A i, j \in DOMAIN ret :
            i < j => \/ ret[i].lf < ret[j].lf
                     \/ ret[i].lf = ret[j].lf /\ TotalOf(ret[i]) >= TotalOf(ret[j])

\* python_identifier has returned a result
Identified == call.fn = "python_identifier" /\ returned /\ ret.raised = "none"

\* C18: python_identifier applied to a result it returned gives that
\* result again.
C18_Idempotent == Identified => python_identifier(ret.value) = ret

\* checksumValid has ended
Checked == call.fn = "checksumValid" /\ returned

\* the suffix without its hyphens
Stripped == SelectSeq(call.arg, LAMBDA c : c # "-")

\* 2 to the power n
RECURSIVE Pow2(_)
Pow2(n) == IF n = 0 THEN 1 ELSE 2 * Pow2(n - 1)

\* the fold total = (total + digit) * 2 written out: the digit at place i
\* of n digits is doubled n - i + 1 times
RECURSIVE Weighted(_, _)
Weighted(ds, i) ==
    IF i > Len(ds) THEN 0
    ELSE IntOf(ds[i]) * Pow2(Len(ds) - i + 1) + Weighted(ds, i + 1)

\* the characters a check character can be changed to
CheckCharacters == Digits \cup {"X"}

\* C19: checksumValid returns true exactly when the value of the last
\* character (10 for X) is (12 - (total mod 11)) mod 11, total being the
\* fold over the digits before it of the suffix without hyphens; with
\* another digit or X in place of the check character of a valid suffix it
\* returns false; and a suffix with a character that is no digit, a final
\* X apart, raises MalformedOrcidError and returns nothing.
C19_Checksum ==
    Checked =>
        LET s == Stripped
            n == Len(s)
            digits == SubSeq(s, 1, n - 1)
            wellFormed == /\ n > 0
                          /\ \A i \in 1..(n - 1) : s[i] \in Digits
                          /\ s[n] \in CheckCharacters
        IN IF ~wellFormed THEN ret.raised = "MalformedOrcidError"
           ELSE /\ ret.raised = "none"
                /\ ret.value = ((IF s[n] = "X" THEN 10 ELSE IntOf(s[n]))
                                  = (12 - (Weighted(digits, 1) % 11)) % 11)
                /\ ret.value =>
                       \A c \in CheckCharacters \ {s[n]} :
                           checksumValid(Append(digits, c)) = [raised |-> "none", value |-> FALSE]

\* a suffix with a hyphen and the check character X has been found valid
C19_Witness ==
    /\ Checked
    /\ ret.raised = "none"
    /\ ret.value
    /\ Len(Stripped) >= 3
    /\ Len(call.arg) > Len(Stripped)
    /\ call.arg[Len(call.arg)] = "X"

\* _print_paths has ended, having been given directories, files of known
\* size and files of unknown size
Listing ==
    /\ call.fn = "_print_paths"
    /\ returned
    /\ \A i \in DOMAIN call.arg.paths : call.arg.paths[i].has_meta

\* the path of this name among those given
Given(name) ==
    CHOOSE e \in Range(call.arg.paths) : e.path = name

\* C21: for every collection of directories, files of known size (0
\* included) and files of unknown size, and under both sort options,
\* _print_paths renders its rows: the size column is '/' for a directory,
\* the cached size by hr when it is known ('0' for 0) and '??' only when
\* it is unknown; with --sort-size-desc the rows are in descending order
\* of size.
C21_ListingRendered ==
    Listing =>
        /\ ret.raised = "none"
        /\ {ret.rows[k].path : k \in DOMAIN ret.rows}
               = {call.arg.paths[i].path : i \in DOMAIN call.arg.paths}
        /\ \A k \in DOMAIN ret.rows :
             LET e == Given(ret.rows[k].path)
             IN ret.rows[k].size =
                    IF e.is_dir THEN TextCell("/")
                    ELSE IF e.size # NoSize THEN Hr(e.size)
                    ELSE TextCell("??")
        /\ call.arg.sort_size_desc =>
             \A i, j \in DOMAIN ret.rows :
                 i < j => Given(ret.rows[i].path).size >= Given(ret.rows[j].path).size

\* C22: in a batch that refresh dispatches concurrently, the remote refresh
\* of the directories and the refresh of the non-directories, no path is
\* the target of two operations, whatever the path arguments are, one
\* above another included.
C22_OneOperationPerPath ==
    (rcmd = "refresh" /\ ~ropt.debug) =>
        \A a, b \in OpsOf("refresh") \cup OpsOf("refresh_file") :
            (a.kind = b.kind /\ a.path = b.path) => a.idx = b.idx

\* C23: no command method that reads the dispatcher context (anchor,
\* project_path, project_id, bfl, summary) is run while it is unset: for
\* every command and flag combination of the usage text, --pretend
\* included, when the command is run either setup has established the
\* context or the command reads none of its attributes.
C23_ContextSetWhenRead ==
    (spc = "call" \/ sout \in {"ran", "AttributeError"}) =>
        (Established(ctx) \/ Reads(sopt.cmd) = {})

----------------------------------------------------------------------------
(* Specifications *)

\* the families a specification leaves alone rest in one fixed state
RestExport == InitExport /\ LATEST = Absent

RestClone ==
    InitClone /\ ~in_project /\ secrets = {} /\ dest = [p \in ProjectIds |-> "absent"]

RestSetup == InitSetup /\ binding = [t \in {"cwd", "project_path"} |-> "self"]

RestCall == call = NoCall /\ returned = FALSE /\ ret = <<>>

Init == InitExport /\ InitClone /\ InitSetup /\ InitRefresh /\ InitCall

Next == NextExport \/ NextClone \/ NextSetup \/ NextRefresh \/ NextCall

ExportInit == InitExport /\ RestClone /\ RestSetup /\ InitRefresh /\ RestCall

CloneInit == RestExport /\ InitClone /\ RestSetup /\ InitRefresh /\ RestCall

SetupInit == RestExport /\ RestClone /\ InitSetup /\ InitRefresh /\ RestCall

RefreshInit == RestExport /\ RestClone /\ RestSetup /\ InitRefresh /\ RestCall

CallInit == RestExport /\ RestClone /\ RestSetup /\ InitRefresh /\ InitCall

SpecExport == ExportInit /\ [][NextExport]_vars

SpecClone == CloneInit /\ [][NextClone]_vars

SpecSetup == SetupInit /\ [][NextSetup]_vars

SpecRefresh == RefreshInit /\ [][NextRefresh]_vars

SpecCall == CallInit /\ [][NextCall]_vars

Spec == Init /\ [][Next]_vars

====
